---------------------------- MODULE Spec2Model ----------------------------
(***************************************************************************)
(* A model of the movedata migration tool:                                 *)
(*   - MigrationService (src/migration_service.py): migrate_database,      *)
(*     migrate_collection, _process_batch, count_documents;                *)
(*   - ConnectionManager (src/connection_manager.py) and its PostgreSQL    *)
(*     twin: connect_to_source / connect_to_destination, the retrying      *)
(*     client creation, execute_with_retry, the health monitor thread.     *)
(* Spec      : the batch transfer engine over a small database.            *)
(* SpecConn  : the connection layer, the main thread interleaved with the  *)
(*             health monitor thread.                                      *)
(***************************************************************************)
EXTENDS Integers, Sequences, FiniteSets, TLC

(***************************************************************************)
(* Bounds of the model.                                                    *)
(***************************************************************************)
MaxDocs == 3
MaxBatch == 2
MaxRuns == 2
MaxFaults == 1
MaxOpRetry == 3
MaxConnRetry == 3
MaxHandles == 2
MaxOps == 1
\* maxconn of the relational pools (20 in the source), scaled.
PoolSize == 2
MaxCalls == 2
MaxSample == 4

(***************************************************************************)
(* Values of the program.                                                  *)
(***************************************************************************)
\* Python's None where the code expects a number or a dict.
NoneVal == -1
\* A document without an "_id" field.
NoId == 0
\* First identity the destination server generates for a document inserted
\* without one.
OidBase == 100
\* Identity and body of a document already at the destination before any run.
ForeignId == 50
OldBody == 0
\* The collections list_collections returns for the database.
Units == {1, 2}
UnitList == <<1, 2>>

\* Exception classes an operation can raise (pymongo's hierarchy):
\* ConnectionFailure and ServerSelectionTimeoutError are transport errors,
\* BulkWriteError, DuplicateKeyError and OperationFailure are PyMongoError
\* subclasses that report a logical/data failure, ValueError stands for any
\* exception outside the driver's hierarchy.
ConnectionClass == {"ConnectionFailure", "ServerSelectionTimeoutError"}
PyMongoErrors == ConnectionClass \cup {"BulkWriteError", "DuplicateKeyError", "OperationFailure"}
ErrorClasses == PyMongoErrors \cup {"ValueError"}

\* The two roles a ConnectionManager keeps a client for.
Roles == {"source", "destination"}
\* self.source_client = None
NoClient == 0
\* Config.batch_size as loaded without BATCH_SIZE in the environment, and the
\* default of the batch_size parameter of MigrationService.__init__.
DefaultBatchSize == 1000
\* The clients the front-end's two connects stored before the calls the
\* model follows: identities outside those _create_mongo_client_with_retry
\* gives to the clients it creates from then on.
FirstSource == MaxHandles + 1
FirstDest == MaxHandles + 2
\* connection_retry_delay_ms values, in milliseconds.
DelayChoices == {0, 2000}
\* What MongoClient(...) followed by the ping can raise.
ConnectErrors == {"ConnectionFailure", "OperationFailure"}
\* What an operation handed to execute_with_retry can do.
OperationOutcomes == {"ok", "ConnectionFailure", "DuplicateKeyError", "ValueError"}

VARIABLES
    \* ---- configuration and environment (fixed by Init)
    batch_size, operation_retry_attempts, target_is_vcore, noop_modified, source,
    dest_initial,
    \* ---- destination server
    dest_docs, dest_collections, next_oid,
    \* ---- migrate_database
    db_pc, collections, db_idx, db_stats, db_result, runs,
    \* ---- migrate_collection
    mc_pc, cursor_pos, batch, total_documents, stats, report,
    \* ---- history of the run in progress
    batch_log, attempted, faults, clean_runs, prior_clean,
    \* ---- ConnectionManager: configuration, fields, handles closed so far
    connection_retry_attempts, connection_retry_delay_ms,
    client, healthy, shutdown_requested, close_called, next_handle,
    \* ---- the health monitor thread
    hm_pc, hm_role, hm_target,
    \* ---- the main thread: connect_to_source / connect_to_destination
    pc, role, caller, op_count,
    old_handle, saw_unhealthy, new_client, conn_attempt, conn_attempts, delays,
    conn_result, conn_kind, conn_err,
    \* ---- the main thread: execute_with_retry
    ex_attempt, ex_calls, ex_last, ex_waits, ex_reconnects, ex_result,
    \* ---- PostgreSQLMigrationService.migrate_table_data: the source table,
    \* the destination table, the call's position and locals, the outcomes of
    \* the batches so far
    pg_rows, pg_dest, pg_pc, pg_total_records, pg_offset, pg_stats, pg_log,
    pg_unique, pg_runs, pg_prior,
    \* ---- CosmosDBMigrationGUI: the stop flag, the migration thread's
    \* position, and the number of batches the unit in progress had written
    \* when the stop was requested
    migration_stopped, gui_pc, stop_mark,
    \* ---- CosmosDBRUManager and its caller: the throughput mode of the
    \* configuration, the target kind as configured, the detection's inputs
    \* and result, the destination's containers, the creation commands issued
    \* for them, the last call and the number of calls; the sample and the
    \* result of get_recommended_partition_key
    ru_throughput_mode, ru_configured_vcore, ru_probe, detected_target_type,
    ru_containers, ru_commands, ru_last, ru_calls, ru_pc,
    ru_sample, ru_recommended,
    \* ---- the front-end's Config.batch_size, the clients MigrationService
    \* was constructed with, and the client the operation last invoked by
    \* execute_with_retry ran against
    config_batch_size, service_client, op_client,
    \* ---- the relational pools: connections taken and not returned, and
    \* the health flags the relational monitor writes
    pool_out, pool_healthy

cfgvars == <<batch_size, operation_retry_attempts, target_is_vcore, noop_modified, source, dest_initial>>
destvars == <<dest_docs, dest_collections, next_oid>>
dbvars == <<db_pc, collections, db_idx, db_stats, db_result, runs>>
mcvars == <<mc_pc, cursor_pos, batch, total_documents, stats, report>>
histvars == <<batch_log, attempted, faults, clean_runs, prior_clean>>
migvars == <<cfgvars, destvars, dbvars, mcvars, histvars>>
mgrvars == <<connection_retry_attempts, connection_retry_delay_ms, client, healthy,
             shutdown_requested, close_called, next_handle>>
hmvars == <<hm_pc, hm_role, hm_target>>
callvars == <<pc, role, caller, op_count>>
connectvars == <<old_handle, saw_unhealthy, new_client, conn_attempt, conn_attempts,
                   delays, conn_result, conn_kind, conn_err>>
execvars == <<ex_attempt, ex_calls, ex_last, ex_waits, ex_reconnects, ex_result>>
connvars == <<mgrvars, hmvars, callvars, connectvars, execvars>>
pgvars == <<pg_rows, pg_dest, pg_pc, pg_total_records, pg_offset, pg_stats, pg_log,
            pg_unique, pg_runs, pg_prior>>
guivars == <<migration_stopped, gui_pc, stop_mark>>
ruvars == <<ru_throughput_mode, ru_configured_vcore, ru_probe, detected_target_type,
            ru_containers, ru_commands, ru_last, ru_calls, ru_pc, ru_sample, ru_recommended>>
svcvars == <<config_batch_size, service_client, op_client>>
poolvars == <<pool_out, pool_healthy>>
vars == <<migvars, connvars, pgvars, guivars, ruvars, svcvars, poolvars>>

(***************************************************************************)
(* Source documents: document i of a collection has body i and identity i; *)
(* at most one document of the collection has no identity field.           *)
(***************************************************************************)
Doc(i, hasId) == [id |-> IF hasId THEN i ELSE NoId, body |-> i]
SourceChoices ==
    UNION { { [i \in 1..n |-> Doc(i, i # k)] : k \in 0..n } : n \in 0..MaxDocs }
AllHaveIds(docs) == \A i \in 1..Len(docs) : docs[i].id # NoId
Ids(docset) == { d.id : d \in docset }
SeqToSet(s) == { s[i] : i \in 1..Len(s) }

(***************************************************************************)
(* ConnectionManager.execute_with_retry, as a function of the outcome of   *)
(* each invocation of the operation ("ok" or the class of the exception    *)
(* it raises).                                                             *)
(***************************************************************************)
\* The except clause: (ConnectionFailure, ServerSelectionTimeoutError, PyMongoError).
ExecutorCatches(e) == e \in PyMongoErrors
\* A test that lets the loop's last iteration reconnect and wait as well.
RetriesAlwaysRemain(attempt, max) == attempt < max
\* if attempt < max_retries - 1
RetriesRemain(attempt, max) == attempt < max - 1
\* time.sleep(2 ** attempt)
BackoffSeconds(attempt) == 2 ^ attempt

RECURSIVE RetryLoop(_, _, _, _)
RetryLoop(outcomes, attempt, max, acc) ==
    IF attempt >= max
    THEN acc    \* the for loop ends without a return: the call returns None
    ELSE LET o == outcomes[attempt + 1]
             called == [acc EXCEPT !.calls = @ + 1]
         IN  IF o = "ok"
             THEN [called EXCEPT !.kind = "return"]
             ELSE IF ExecutorCatches(o) /\ RetriesRemain(attempt, max)
                  THEN RetryLoop(outcomes, attempt + 1, max,
                                 [called EXCEPT !.reconnects = @ + 1,
                                                !.waits = Append(@, BackoffSeconds(attempt))])
                  ELSE [called EXCEPT !.kind = "raise", !.err = o]

execute_with_retry(outcomes, max) ==
    RetryLoop(outcomes, 0, max,
              [kind |-> "none", calls |-> 0, err |-> "none", waits |-> <<>>, reconnects |-> 0])

\* The invocation outcomes an environment with `budget` faults left can show:
\* entries the loop never reaches are "ok".
FailedCalls(r) == IF r.kind = "return" THEN r.calls - 1 ELSE r.calls
OutcomeSeqs(max, errors, budget) ==
    LET Failing(k) == { [i \in 1..max |-> IF i <= k THEN e[i] ELSE "ok"] : e \in [1..k -> errors] }
        Candidates == UNION { Failing(k) : k \in { n \in 0..max : n <= budget } }
    IN  { o \in Candidates :
            LET r == execute_with_retry(o, max)
            IN  /\ FailedCalls(r) <= budget
                /\ \A i \in 1..max : i > r.calls => o[i] = "ok" }

(***************************************************************************)
(* The destination server: bulk_write of ReplaceOne(..., upsert=True).     *)
(* st = [docs, upserted, modified, oid].                                   *)
(***************************************************************************)
\* nModified of one replacement: a replacement by an identical document is a
\* no-op, which the server counts as modified or not (noop_modified).
Modified(old, doc) == IF old.body # doc.body \/ noop_modified THEN 1 ELSE 0

\* A write that inserts the document under a fresh identity instead of
\* replacing the document that has its identity.
InsertAlways(doc, st) ==
    IF \E r \in st.docs : r.id = doc.id
    THEN { [st EXCEPT !.docs = @ \cup {[id |-> OidBase + st.oid, body |-> doc.body]},
                      !.upserted = @ + 1, !.oid = @ + 1] }
    ELSE { [st EXCEPT !.docs = @ \cup {doc}, !.upserted = @ + 1] }

\* ReplaceOne({"_id": id}, document, upsert=True), or for a document without
\* "_id" ReplaceOne({}, document, upsert=True): the empty filter matches any
\* document of the collection, the server replaces the first it finds.
ReplaceOne(doc, st) ==
    IF doc.id # NoId
    THEN IF \E r \in st.docs : r.id = doc.id
         THEN LET r == CHOOSE x \in st.docs : x.id = doc.id
              IN  { [st EXCEPT !.docs = (@ \ {r}) \cup {doc},
                               !.modified = @ + Modified(r, doc)] }
         ELSE { [st EXCEPT !.docs = @ \cup {doc}, !.upserted = @ + 1] }
    ELSE IF st.docs = {}
         THEN { [st EXCEPT !.docs = {[id |-> OidBase + st.oid, body |-> doc.body]},
                           !.upserted = @ + 1, !.oid = @ + 1] }
         ELSE { [st EXCEPT !.docs = (@ \ {r}) \cup {[id |-> r.id, body |-> doc.body]},
                           !.modified = @ + Modified(r, doc)] : r \in st.docs }

\* The operations outside `skipped` applied in order.
RECURSIVE BulkApply(_, _, _, _)
BulkApply(ops, i, skipped, st) ==
    IF i > Len(ops) THEN {st}
    ELSE IF i \in skipped THEN BulkApply(ops, i + 1, skipped, st)
    ELSE UNION { BulkApply(ops, i + 1, skipped, st2) : st2 \in ReplaceOne(ops[i], st) }

\* What the server may do with one bulk_write of n operations (one message
\* on the wire):
\*   ok                : every operation applied;
\*   BulkWriteError    : the operations in `lost` (not empty) get a write error;
\*   ConnectionFailure : the call is lost before the server saw it (nothing
\*                       applied) or after (everything applied).
Reactions(n, budget) ==
    {[kind |-> "ok", lost |-> {}]}
    \cup (IF budget > 0
          THEN { [kind |-> "BulkWriteError", lost |-> l] : l \in (SUBSET (1..n)) \ {{}} }
               \cup { [kind |-> "ConnectionFailure", lost |-> l] : l \in {{}, 1..n} }
          ELSE {})

(***************************************************************************)
(* MigrationService._process_batch                                         *)
(***************************************************************************)
ZeroBatchStats == [inserted |-> 0, failed |-> 0, upserted |-> 0, modified |-> 0, raw_inserted |-> 0]

\* result.inserted_count + result.upserted_count + result.modified_count;
\* a bulk of ReplaceOne operations inserts nothing (inserted_count = 0).
BulkCounts(st) ==
    [ZeroBatchStats EXCEPT !.inserted = 0 + st.upserted + st.modified,
                           !.upserted = st.upserted,
                           !.modified = st.modified]

\* A handler that reports the failures of a partly failed bulk write and
\* forgets the documents that were written.
PartialForgotten(st, write_errors) == [ZeroBatchStats EXCEPT !.failed = write_errors]
\* except BulkWriteError: the counts of e.details["writeResult"] and
\* failed = len(e.details["writeErrors"]).
PartialStats(st, write_errors) == [BulkCounts(st) EXCEPT !.failed = write_errors]

\* _process_batch_operation: an invocation that returns, the server reacting
\* with rx: the set of [stats, st] it can produce.
BatchOperation(b, docs, oid, rx) ==
    LET st0 == [docs |-> docs, upserted |-> 0, modified |-> 0, oid |-> oid]
    IN  { [stats |->
             IF rx.kind = "ok" THEN BulkCounts(st)
             ELSE IF rx.kind = "BulkWriteError"
                  THEN PartialStats(st, Cardinality(rx.lost))
                  ELSE [ZeroBatchStats EXCEPT !.failed = Len(b)],   \* except PyMongoError
           st |-> st] : st \in BulkApply(b, 1, rx.lost, st0) }

\* The exceptions _process_batch_operation lets out: every PyMongoError is
\* caught inside it.
BatchRaises == {"ValueError"}

\* An outcome that counts a lost batch as batch_size failed documents.
FailedAsFullBatch(b) == [ZeroBatchStats EXCEPT !.failed = batch_size]
\* The outcome _process_batch hands back when the executor raises (line 395).
FailedBatchStats(b) == [ZeroBatchStats EXCEPT !.failed = Len(b)]

(***************************************************************************)
(* Reads of the source through the executor (list_collections,             *)
(* count_documents): except PyMongoError turns the executor's error into   *)
(* the default value, any other exception propagates.                      *)
(***************************************************************************)
ReadErrors == {"ConnectionFailure", "OperationFailure", "ValueError"}
\* "value" | "default" | "none" | "propagate"
ReadThroughExecutor(r) ==
    IF r.kind = "return" THEN "value"
    ELSE IF r.kind = "none" THEN "none"
    ELSE IF r.err \in PyMongoErrors THEN "default"
    ELSE "propagate"

(***************************************************************************)
(* Reports.                                                                *)
(***************************************************************************)
ZeroStats == [total_documents |-> 0, migrated_documents |-> 0, failed_documents |-> 0,
              inserted_documents |-> 0, upserted_documents |-> 0, modified_documents |-> 0]
\* has_counts: the dict holds total/migrated/failed_documents;
\* has_detail: it also holds inserted/upserted/modified_documents.
Report(success, has_counts, has_detail, st, error) ==
    [success |-> success, has_counts |-> has_counts, has_detail |-> has_detail,
     stats |-> st, error |-> error]
NoReport == Report(FALSE, FALSE, FALSE, ZeroStats, "none")
\* lines 214-217
EnsureFailedReport == Report(FALSE, FALSE, FALSE, ZeroStats, "Failed to create destination collection with RU settings")
\* lines 236-241
EmptyReport == Report(TRUE, TRUE, FALSE, ZeroStats, "none")
\* lines 304-310
ExceptionReport(e) == Report(FALSE, TRUE, FALSE, ZeroStats, e)

\* A report whose flag is false as soon as a document failed.
SuccessIfNoneFailed(st) == st.failed_documents = 0
\* stats["success"] of the streamed report: True from line 250 on, no
\* statement of the loop or of the remainder changes it.
FinalSuccess(st) == TRUE

ZeroDbStats == [total_collections |-> 0, successful_collections |-> 0, failed_collections |-> 0,
                total_documents |-> 0, migrated_documents |-> 0, failed_documents |-> 0]

\* lines 271-275 and 282-286
AddBatch(st, bs) ==
    [st EXCEPT !.migrated_documents = @ + bs.inserted,
               !.failed_documents = @ + bs.failed,
               !.inserted_documents = @ + bs.raw_inserted,
               !.upserted_documents = @ + bs.upserted,
               !.modified_documents = @ + bs.modified]

\* A flush test that is off by one.
BatchFullOffByOne(b) == Len(b) > batch_size
\* if len(batch) >= self.batch_size
BatchFull(b) == Len(b) >= batch_size

Unit == collections[db_idx]
\* The documents of a collection of the source database: collection 1 holds
\* `source`, every other collection one document with an identity.
SourceOf(u) == IF u = 1 THEN source ELSE <<Doc(1, TRUE)>>
Budget == MaxFaults - faults

(***************************************************************************)
(* Initial state.                                                          *)
(***************************************************************************)
PreExisting == { {}, {[id |-> 1, body |-> OldBody], [id |-> ForeignId, body |-> OldBody]} }

\* MigrationService before migrate_database is called.
MigIdle ==
    /\ dest_docs = [u \in Units |-> IF u = 1 THEN dest_initial ELSE {}]
    /\ dest_collections = IF dest_initial = {} THEN {} ELSE {1}
    /\ next_oid = 0
    /\ db_pc = "idle" /\ collections = <<>> /\ db_idx = 0
    /\ db_stats = ZeroDbStats /\ db_result = "none" /\ runs = 0
    /\ mc_pc = "idle" /\ cursor_pos = 0 /\ batch = <<>> /\ total_documents = 0
    /\ stats = ZeroStats /\ report = NoReport
    /\ batch_log = <<>> /\ attempted = <<>> /\ faults = 0
    /\ clean_runs = [u \in Units |-> FALSE] /\ prior_clean = FALSE

\* PostgreSQLMigrationService before migrate_table_data is called, the
\* source table holding `rows` rows and the destination table none.  pg_dest
\* gives for each source row the number of copies the destination table
\* holds; pg_unique tells whether the destination table has a primary key or
\* unique constraint (migrate_schema adds the source's constraints, a table
\* without one has none); pg_prior is pg_dest as the call in progress found
\* it.
NoRows(rows) == [i \in 1..rows |-> 0]
ZeroPgStats == [success |-> TRUE, has_counts |-> TRUE, total_records |-> 0,
                migrated_records |-> 0, failed_records |-> 0]
PgIdle(rows) ==
    /\ pg_rows = rows /\ pg_dest = NoRows(rows)
    /\ pg_unique = FALSE /\ pg_runs = 0 /\ pg_prior = NoRows(rows)
    /\ pg_pc = "idle" /\ pg_total_records = 0 /\ pg_offset = 0
    /\ pg_stats = ZeroPgStats /\ pg_log = <<>>

\* CosmosDBMigrationGUI.__init__: no migration thread, the stop flag false.
GuiIdle ==
    /\ migration_stopped = FALSE /\ gui_pc = "idle" /\ stop_mark = NoneVal

\* CosmosDBRUManager before MigrationService is constructed: nothing
\* detected, no container at the destination, no command issued.
NoProbe == [status |-> "none", create |-> "none"]
NoCall == [via |-> "none", unit |-> 0, hint |-> "", list |-> "none", create |-> "none",
           existed |-> FALSE, issued |-> 0, ret |-> "none"]
NoContainer == [by |-> "none", key |-> "", manual |-> 0, autoscale |-> 0]
RuIdle ==
    /\ ru_throughput_mode = "manual" /\ ru_configured_vcore = TRUE
    /\ ru_probe = NoProbe /\ detected_target_type = "none"
    /\ ru_containers = [u \in Units |-> NoContainer]
    /\ ru_commands = <<>> /\ ru_last = NoCall /\ ru_calls = 0 /\ ru_pc = "new"
    /\ ru_sample = <<>> /\ ru_recommended = "none"

\* No MigrationService constructed: Config as loaded with its default
\* batch size, no client captured, no operation invoked.
SvcIdle ==
    /\ config_batch_size = DefaultBatchSize
    /\ service_client = [r \in Roles |-> NoClient] /\ op_client = NoClient

\* The relational pools as created: every connection in its pool, the flags
\* as connect_to_source and connect_to_destination set them.
PoolIdle ==
    /\ pool_out = [r \in Roles |-> 0] /\ pool_healthy = [r \in Roles |-> TRUE]

\* ConnectionManager.__init__: no client, flags false, the monitor thread
\* started; no call in progress on the main thread.
NoResult == [kind |-> "none", err |-> "none"]
ConnIdle(attempts, delay_ms) ==
    /\ connection_retry_attempts = attempts /\ connection_retry_delay_ms = delay_ms
    /\ client = [r \in Roles |-> NoClient] /\ healthy = [r \in Roles |-> FALSE]
    /\ shutdown_requested = FALSE /\ close_called = {}
    /\ next_handle = 0
    /\ hm_pc = "probe" /\ hm_role = "source" /\ hm_target = NoClient
    /\ pc = "idle" /\ role = "source" /\ caller = "user" /\ op_count = 0
    /\ old_handle = NoClient /\ saw_unhealthy = FALSE /\ new_client = NoClient
    /\ conn_attempt = 0 /\ conn_attempts = 0 /\ delays = <<>>
    /\ conn_result = NoClient /\ conn_kind = "none" /\ conn_err = "none"
    /\ ex_attempt = 0 /\ ex_calls = 0 /\ ex_last = "none" /\ ex_waits = <<>> /\ ex_reconnects = 0
    /\ ex_result = NoResult

Init ==
    /\ batch_size \in 1..MaxBatch
    /\ operation_retry_attempts \in {0, MaxOpRetry}
    /\ target_is_vcore \in BOOLEAN
    /\ noop_modified \in BOOLEAN
    /\ source \in SourceChoices
    /\ dest_initial \in PreExisting
    /\ MigIdle
    /\ ConnIdle(0, 0)
    /\ PgIdle(0)
    /\ GuiIdle
    /\ SvcIdle
    /\ PoolIdle
    /\ RuIdle

(***************************************************************************)
(* _process_batch(dest_collection, b) for the unit in progress: the set of *)
(* its possible results.  kind "stats": a batch outcome `bs`; kind "none": *)
(* the executor returned None.                                             *)
(***************************************************************************)
ProcessBatch(b) ==
    UNION {
      LET r == execute_with_retry(o, operation_retry_attempts)
          used == FailedCalls(r)
      IN  IF r.kind = "return"
          THEN UNION { { [kind |-> "stats", bs |-> res.stats, docs |-> res.st.docs, oid |-> res.st.oid,
                          faults |-> used + (IF rx.kind = "ok" THEN 0 ELSE 1),
                          reaction |-> rx.kind, calls |-> r.calls,
                          write_errors |-> IF rx.kind = "BulkWriteError"
                                           THEN Cardinality(rx.lost) ELSE 0]
                         : res \in BatchOperation(b, dest_docs[Unit], next_oid, rx) }
                       : rx \in Reactions(Len(b), Budget - used) }
          ELSE IF r.kind = "raise"
          THEN { [kind |-> "stats", bs |-> FailedBatchStats(b), docs |-> dest_docs[Unit], oid |-> next_oid,
                  faults |-> used, reaction |-> r.err, calls |-> r.calls, write_errors |-> 0] }
          ELSE { [kind |-> "none", bs |-> ZeroBatchStats, docs |-> dest_docs[Unit], oid |-> next_oid,
                  faults |-> used, reaction |-> "none", calls |-> r.calls, write_errors |-> 0] }
      : o \in OutcomeSeqs(operation_retry_attempts, BatchRaises, Budget) }

LogEntry(b, p) ==
    [len |-> Len(b), stats |-> p.bs, kind |-> p.kind, reaction |-> p.reaction, calls |-> p.calls,
     write_errors |-> p.write_errors]

(***************************************************************************)
(* migrate_database, lines 145-156: list the collections, start the loop.  *)
(***************************************************************************)
StartDatabase ==
    /\ db_pc \in {"idle", "done", "aborted"}
    /\ runs < MaxRuns
    /\ \E o \in OutcomeSeqs(operation_retry_attempts, ReadErrors, Budget) :
         LET r == execute_with_retry(o, operation_retry_attempts)
             got == ReadThroughExecutor(r)
         IN  /\ faults' = faults + FailedCalls(r)
             /\ IF got \in {"none", "propagate"}
                THEN \* len(None) raises TypeError, or the exception propagates: lines 174-180
                     /\ db_pc' = "aborted" /\ db_result' = "error"
                     /\ collections' = <<>> /\ db_idx' = 0
                     /\ db_stats' = ZeroDbStats
                     /\ mc_pc' = "idle"
                ELSE LET listed == IF got = "value" THEN UnitList ELSE <<>>
                     IN  /\ collections' = listed
                         /\ db_stats' = [ZeroDbStats EXCEPT !.total_collections = Len(listed)]
                         /\ db_idx' = 1
                         /\ IF listed = <<>>
                            THEN db_pc' = "done" /\ db_result' = "stats" /\ mc_pc' = "idle"
                            ELSE db_pc' = "loop" /\ db_result' = "none" /\ mc_pc' = "ensure"
    /\ runs' = runs + 1
    /\ attempted' = <<>>
    /\ batch_log' = <<>>
    /\ report' = NoReport
    /\ UNCHANGED <<svcvars, poolvars, connvars, pgvars, guivars, ruvars, cfgvars, destvars, cursor_pos, batch, total_documents, stats, clean_runs, prior_clean>>

(***************************************************************************)
(* migrate_collection, lines 192-229: the destination container.           *)
(***************************************************************************)
\* An ensure that succeeds whatever the destination answered.
EnsureAlwaysTrue(exists, list_ok, create_ok) == TRUE
\* CosmosDBRUManager.ensure_collection_exists, the destination answering the
\* listing and the creation command or failing them.
ensure_collection_exists(exists, list_ok, create_ok) ==
    IF ~list_ok THEN FALSE
    ELSE IF exists THEN TRUE
    ELSE create_ok

EnsureContainer ==
    /\ db_pc = "loop" /\ mc_pc = "ensure"
    /\ \E list_ok, create_ok \in BOOLEAN :
         LET exists == Unit \in dest_collections
             reached == list_ok /\ ~exists       \* the creation command is issued
             fault == ~list_ok \/ (reached /\ ~create_ok)
         IN  /\ fault => Budget > 0
             /\ ~reached => create_ok
             /\ list_ok \/ create_ok
             /\ faults' = faults + (IF fault THEN 1 ELSE 0)
             /\ IF ~target_is_vcore
                THEN IF ensure_collection_exists(exists, list_ok, create_ok)
                     THEN /\ mc_pc' = "count" /\ report' = NoReport
                          /\ dest_collections' = dest_collections \cup {Unit}
                     ELSE /\ mc_pc' = "return" /\ report' = EnsureFailedReport
                          /\ UNCHANGED dest_collections
                ELSE \* lines 225-227: an exception of the listing or the creation
                     \* reaches the except clause of line 301
                     IF ~fault
                     THEN /\ mc_pc' = "count" /\ report' = NoReport
                          /\ dest_collections' = dest_collections \cup {Unit}
                     ELSE /\ mc_pc' = "return" /\ report' = ExceptionReport("OperationFailure")
                          /\ UNCHANGED dest_collections
    /\ attempted' = Append(attempted, Unit)
    /\ batch_log' = <<>>
    /\ prior_clean' = clean_runs[Unit]
    /\ UNCHANGED <<svcvars, poolvars, connvars, pgvars, guivars, ruvars, cfgvars, dest_docs, next_oid, dbvars, cursor_pos, batch, total_documents, stats, clean_runs>>

(***************************************************************************)
(* migrate_collection, lines 231-263: the progress count, the early return *)
(* on a count of 0, the destination count, the statistics, the cursor.     *)
(***************************************************************************)
CountDocuments ==
    /\ db_pc = "loop" /\ mc_pc = "count"
    /\ \E o \in OutcomeSeqs(operation_retry_attempts, ReadErrors, Budget) :
         LET r == execute_with_retry(o, operation_retry_attempts)
             got == ReadThroughExecutor(r)
             used == FailedCalls(r)
             total == IF got = "value" THEN Len(SourceOf(Unit))
                      ELSE IF got = "default" THEN 0     \* line 122
                      ELSE NoneVal
         IN  \E dest_count_ok \in BOOLEAN :
               LET reached == got # "propagate" /\ total # 0   \* line 244 is executed
               IN  /\ ~dest_count_ok => (reached /\ Budget - used > 0)
                   /\ faults' = faults + used + (IF dest_count_ok THEN 0 ELSE 1)
                   /\ total_documents' = total
                   /\ IF got = "propagate"
                      THEN /\ mc_pc' = "return" /\ report' = ExceptionReport(r.err)
                           /\ UNCHANGED stats
                      ELSE IF total = 0
                      THEN /\ mc_pc' = "return" /\ report' = EmptyReport
                           /\ UNCHANGED stats
                      ELSE IF ~dest_count_ok
                      THEN /\ mc_pc' = "return" /\ report' = ExceptionReport("ConnectionFailure")
                           /\ UNCHANGED stats
                      ELSE /\ mc_pc' = "stream" /\ report' = NoReport
                           /\ stats' = [ZeroStats EXCEPT !.total_documents = total]
    /\ cursor_pos' = 0
    /\ batch' = <<>>
    /\ UNCHANGED <<svcvars, poolvars, connvars, pgvars, guivars, ruvars, cfgvars, destvars, dbvars, batch_log, attempted, clean_runs, prior_clean>>

(***************************************************************************)
(* migrate_collection, lines 266-277: one iteration of the streaming loop. *)
(***************************************************************************)
ReadDocument ==
    /\ db_pc = "loop" /\ mc_pc = "stream"
    /\ cursor_pos < Len(SourceOf(Unit))
    /\ LET b == Append(batch, SourceOf(Unit)[cursor_pos + 1])
       IN  IF ~BatchFull(b)
           THEN /\ batch' = b
                /\ UNCHANGED <<destvars, mc_pc, stats, report, batch_log, faults>>
           ELSE \E p \in ProcessBatch(b) :
                  /\ faults' = faults + p.faults
                  /\ batch_log' = Append(batch_log, LogEntry(b, p))
                  /\ dest_docs' = [dest_docs EXCEPT ![Unit] = p.docs]
                  /\ next_oid' = p.oid
                  /\ UNCHANGED dest_collections
                  /\ IF p.kind = "stats"
                     THEN /\ stats' = AddBatch(stats, p.bs)
                          /\ batch' = <<>>
                          /\ UNCHANGED <<mc_pc, report>>
                     ELSE \* batch_stats is None: TypeError, lines 301-310
                          /\ mc_pc' = "return" /\ report' = ExceptionReport("TypeError")
                          /\ UNCHANGED <<stats, batch>>
    /\ cursor_pos' = cursor_pos + 1
    /\ UNCHANGED <<svcvars, poolvars, connvars, pgvars, guivars, ruvars, cfgvars, dbvars, total_documents, attempted, clean_runs, prior_clean>>

\* The cursor raises while the loop iterates it: lines 301-310.
CursorError ==
    /\ db_pc = "loop" /\ mc_pc = "stream"
    /\ cursor_pos < Len(SourceOf(Unit))
    /\ Budget > 0
    /\ faults' = faults + 1
    /\ mc_pc' = "return" /\ report' = ExceptionReport("ConnectionFailure")
    /\ UNCHANGED <<svcvars, poolvars, connvars, pgvars, guivars, ruvars, cfgvars, destvars, dbvars, cursor_pos, batch, total_documents, stats,
                   batch_log, attempted, clean_runs, prior_clean>>

(***************************************************************************)
(* migrate_collection, lines 279-299: the remainder and the report.        *)
(***************************************************************************)
EndOfCursor ==
    /\ db_pc = "loop" /\ mc_pc = "stream"
    /\ cursor_pos = Len(SourceOf(Unit))
    /\ IF batch = <<>>
       THEN /\ report' = Report(FinalSuccess(stats), TRUE, TRUE, stats, "none")
            /\ clean_runs' = [clean_runs EXCEPT ![Unit] = @ \/ stats.failed_documents = 0]
            /\ UNCHANGED <<destvars, stats, batch_log, faults>>
       ELSE \E p \in ProcessBatch(batch) :
              /\ faults' = faults + p.faults
              /\ batch_log' = Append(batch_log, LogEntry(batch, p))
              /\ dest_docs' = [dest_docs EXCEPT ![Unit] = p.docs]
              /\ next_oid' = p.oid
              /\ UNCHANGED dest_collections
              /\ IF p.kind = "stats"
                 THEN /\ stats' = AddBatch(stats, p.bs)
                      /\ report' = Report(FinalSuccess(AddBatch(stats, p.bs)), TRUE, TRUE,
                                           AddBatch(stats, p.bs), "none")
                      /\ clean_runs' = [clean_runs EXCEPT ![Unit] =
                                          @ \/ AddBatch(stats, p.bs).failed_documents = 0]
                 ELSE /\ report' = ExceptionReport("TypeError")
                      /\ UNCHANGED <<stats, clean_runs>>
    /\ mc_pc' = "return"
    /\ UNCHANGED <<svcvars, poolvars, connvars, pgvars, guivars, ruvars, cfgvars, dbvars, cursor_pos, batch, total_documents, attempted, prior_clean>>

(***************************************************************************)
(* migrate_database, lines 159-180: the statistics of the collection are   *)
(* added to the run's, then the next collection or the end.                *)
(***************************************************************************)
\* collection_stats["total_documents"] raises KeyError when the key is absent
\* and the += raises TypeError when the value is None.
CanAccumulate(rep) == rep.has_counts /\ rep.stats.total_documents # NoneVal

FinishCollection ==
    /\ db_pc = "loop" /\ mc_pc = "return"
    /\ LET counted == [db_stats EXCEPT
                         !.successful_collections = @ + (IF report.success THEN 1 ELSE 0),
                         !.failed_collections = @ + (IF report.success THEN 0 ELSE 1)]
       IN  IF ~CanAccumulate(report)
           THEN \* except Exception, lines 174-180
                /\ db_pc' = "aborted" /\ db_result' = "error"
                /\ db_stats' = counted
                /\ mc_pc' = "idle"
                /\ UNCHANGED db_idx
           ELSE /\ db_stats' = [counted EXCEPT
                                  !.total_documents = @ + report.stats.total_documents,
                                  !.migrated_documents = @ + report.stats.migrated_documents,
                                  !.failed_documents = @ + report.stats.failed_documents]
                /\ IF db_idx < Len(collections)
                   THEN /\ db_idx' = db_idx + 1 /\ mc_pc' = "ensure"
                        /\ UNCHANGED <<db_pc, db_result>>
                   ELSE /\ db_pc' = "done" /\ db_result' = "stats" /\ mc_pc' = "idle"
                        /\ UNCHANGED db_idx
    \* the locals of the migrate_collection call that returned are gone
    /\ cursor_pos' = 0 /\ batch' = <<>> /\ total_documents' = 0
    /\ stats' = ZeroStats /\ report' = NoReport
    /\ batch_log' = <<>>
    /\ UNCHANGED <<svcvars, poolvars, connvars, pgvars, guivars, ruvars, cfgvars, destvars, collections, runs, attempted, faults, clean_runs, prior_clean>>

Next ==
    \/ StartDatabase
    \/ EnsureContainer
    \/ CountDocuments
    \/ ReadDocument
    \/ CursorError
    \/ EndOfCursor
    \/ FinishCollection

Spec == Init /\ [][Next]_vars

(***************************************************************************)
(* The connection layer: ConnectionManager.                                *)
(***************************************************************************)
\* jitter = conn_attempt * 0.1 seconds, in milliseconds
JitterMs(i) == i * 100
\* The sleep after failed conn_attempt i of _create_mongo_client_with_retry, in
\* milliseconds: the transport-error handler adds the jitter, the handler of
\* any other exception does not.
ConnectDelayMs(e, i) ==
    IF e \in ConnectionClass
    THEN connection_retry_delay_ms * (2 ^ i) + JitterMs(i)
    ELSE connection_retry_delay_ms * (2 ^ i)
\* A creation loop that gives up one attempt early.
GivesUpEarly(i, retry_attempts) == i < retry_attempts - 2
\* if conn_attempt < retry_attempts - 1
MoreAttempts(i, retry_attempts) == i < retry_attempts - 1
\* What leaves _create_mongo_client_with_retry when its last attempt raised e:
\* a new ConnectionFailure whose message quotes e, or e itself.
Raised(e) == IF e \in ConnectionClass THEN "ConnectionFailure" ELSE e
\* How a finished connect call ends for its caller: the except clause of
\* connect_to_source logs the exception and returns None.
ConnectOutcome ==
    IF conn_kind \in {"reused", "fresh"} THEN [kind |-> "return", value |-> conn_result, err |-> "none"]
    ELSE IF conn_kind = "failed" THEN [kind |-> "return", value |-> NoClient, err |-> "none"]
    ELSE [kind |-> "none", value |-> NoClient, err |-> "none"]
\* A reuse test that never reuses.
NeverReusable(c, flag) == FALSE
\* if self.source_client and self.is_source_healthy()
Reusable(c, flag) == c # NoClient /\ flag
\* Where connect_to_source / connect_to_destination returns to.
ReturnTo(c) == IF c = "executor" THEN "sleep" ELSE "idle"
\* The health monitor's next position after it is done with role r.
AfterRole(r) == IF r = "source" THEN [pc |-> "probe", role |-> "destination"]
                ELSE [pc |-> "sleep", role |-> "source"]

\* A monitor that pings inside the with-block.
PingHoldsLock == TRUE
\* The ping of a role's client is made before the with-block that takes
\* _health_check_lock: the lock is not held while the ping is in flight.
PingUnderLock == FALSE
\* The holder of _health_check_lock between two steps. Every with-block of
\* the class holds only a flag read or a flag assignment, which is part of
\* one step.
health_check_lock == IF hm_pc = "ping" /\ PingUnderLock THEN "monitor" ELSE "free"

\* _health_monitor: the test of the role's client and the start of its ping.
HealthProbe ==
    /\ hm_pc = "probe"
    /\ IF client[hm_role] # NoClient
       THEN /\ hm_target' = client[hm_role]
            /\ hm_pc' = "ping"
            /\ UNCHANGED hm_role
       ELSE /\ hm_pc' = AfterRole(hm_role).pc
            /\ hm_role' = AfterRole(hm_role).role
            /\ UNCHANGED hm_target
    /\ UNCHANGED <<svcvars, poolvars, migvars, pgvars, guivars, ruvars, mgrvars, callvars, connectvars, execvars>>

\* _health_monitor: the ping returns or raises, and the flag of the role is
\* written under the lock with that outcome.
HealthSet ==
    /\ hm_pc = "ping"
    /\ \E ok \in BOOLEAN : healthy' = [healthy EXCEPT ![hm_role] = ok]
    /\ hm_pc' = AfterRole(hm_role).pc
    /\ hm_role' = AfterRole(hm_role).role
    /\ hm_target' = NoClient
    /\ UNCHANGED <<svcvars, poolvars, migvars, pgvars, guivars, ruvars, connection_retry_attempts, connection_retry_delay_ms, client,
                   shutdown_requested, close_called, next_handle,
                   callvars, connectvars, execvars>>

\* A monitor whose thread ends when an iteration raises.
DiesOnError == "stopped"
\* except Exception of the loop body: the error is logged, the thread sleeps
\* for the interval and the loop goes on.
AfterError == "sleep"

\* _health_monitor: an exception that the except clauses of the two pings
\* do not catch (it is raised outside them or inside one of them) ends the
\* iteration: no flag is written and the rest of the iteration is skipped.
HealthError ==
    /\ hm_pc \in {"probe", "ping"}
    /\ hm_pc' = AfterError
    /\ hm_role' = "source"
    /\ hm_target' = NoClient
    /\ UNCHANGED <<svcvars, poolvars, migvars, pgvars, guivars, ruvars, mgrvars, callvars, connectvars, execvars>>

\* _health_monitor: the sleep and the loop test.
HealthSleep ==
    /\ hm_pc = "sleep"
    /\ hm_pc' = IF shutdown_requested THEN "stopped" ELSE "probe"
    /\ UNCHANGED <<svcvars, poolvars, migvars, pgvars, guivars, ruvars, mgrvars, hm_role, hm_target, callvars, connectvars, execvars>>

\* A connect that marks its fresh client unhealthy.
MarkedUnhealthy == FALSE
\* with self._health_check_lock: self._source_healthy = True, after the
\* client was created.
MarkedHealthy == TRUE

\* The locals of a connect call at its entry.
EnterConnect ==
    /\ old_handle' = NoClient /\ saw_unhealthy' = FALSE /\ new_client' = NoClient
    /\ conn_attempt' = 0 /\ conn_attempts' = 0 /\ delays' = <<>>
    /\ conn_result' = NoClient /\ conn_kind' = "none" /\ conn_err' = "none"

\* The locals of an execute_with_retry call at its entry.
EnterExecute ==
    /\ ex_attempt' = 0 /\ ex_calls' = 0 /\ ex_last' = "none" /\ ex_waits' = <<>>
    /\ ex_reconnects' = 0 /\ ex_result' = NoResult

\* The caller calls connect_to_source() or connect_to_destination().
ConnectCall(r) ==
    /\ pc = "idle" /\ op_count < MaxOps
    /\ pc' = "check" /\ role' = r /\ caller' = "user" /\ op_count' = op_count + 1
    /\ EnterConnect
    /\ EnterExecute
    /\ UNCHANGED <<svcvars, poolvars, migvars, pgvars, guivars, ruvars, mgrvars, hmvars>>

\* connect_to_source: the first test of the existing client and its flag.
ConnectCheck ==
    /\ pc = "check"
    /\ health_check_lock = "free"
    /\ IF Reusable(client[role], healthy[role])
       THEN /\ conn_result' = client[role]
            /\ conn_kind' = "reused"
            /\ pc' = ReturnTo(caller)
            /\ UNCHANGED <<old_handle, saw_unhealthy>>
       ELSE /\ old_handle' = client[role]
            /\ saw_unhealthy' = (client[role] # NoClient)
            /\ pc' = "close"
            /\ UNCHANGED <<conn_result, conn_kind, conn_err>>
    /\ UNCHANGED <<svcvars, poolvars, migvars, pgvars, guivars, ruvars, mgrvars, hmvars, role, caller, op_count, new_client, conn_attempt,
                   conn_attempts, delays, conn_err, execvars>>

\* connect_to_source: the second test, the close of the unhealthy client
\* (an exception of close() is caught and logged, with the same effect) and the field set to None.
ConnectClose ==
    /\ pc = "close"
    /\ health_check_lock = "free"
    /\ IF client[role] # NoClient /\ ~healthy[role]
       THEN /\ close_called' = close_called \cup {client[role]}
            /\ client' = [client EXCEPT ![role] = NoClient]
       ELSE UNCHANGED <<close_called, client>>
    /\ pc' = "create"
    /\ UNCHANGED <<svcvars, poolvars, migvars, pgvars, guivars, ruvars, connection_retry_attempts, connection_retry_delay_ms, healthy,
                   shutdown_requested, next_handle, hmvars, role, caller, op_count, connectvars,
                   execvars>>

\* _create_mongo_client_with_retry: one iteration of the loop, or its end;
\* an exception that leaves it runs connect_to_source's handler.
ConnectAttempt ==
    /\ pc = "create"
    /\ IF conn_attempt >= connection_retry_attempts
       THEN /\ new_client' = NoClient
            /\ pc' = "assign"
            /\ UNCHANGED <<client, healthy, next_handle, conn_attempt, conn_attempts,
                   delays, conn_result, conn_kind, conn_err>>
       ELSE /\ conn_attempts' = conn_attempts + 1
            /\ \/ /\ next_handle < MaxHandles
                  /\ next_handle' = next_handle + 1
                  /\ new_client' = next_handle + 1
                  /\ pc' = "assign"
                  /\ UNCHANGED <<client, healthy, conn_attempt, delays, conn_result,
                                 conn_kind, conn_err>>
               \/ \E e \in ConnectErrors :
                    /\ IF MoreAttempts(conn_attempt, connection_retry_attempts)
                       THEN /\ delays' = Append(delays, ConnectDelayMs(e, conn_attempt))
                            /\ conn_attempt' = conn_attempt + 1
                            /\ UNCHANGED <<client, healthy, pc, conn_result, conn_kind, conn_err>>
                       ELSE /\ health_check_lock = "free"
                            /\ client' = [client EXCEPT ![role] = NoClient]
                            /\ healthy' = [healthy EXCEPT ![role] = FALSE]
                            /\ conn_result' = NoClient
                            /\ conn_kind' = "failed" /\ conn_err' = Raised(e)
                            /\ pc' = ReturnTo(caller)
                            /\ UNCHANGED <<delays, conn_attempt>>
                    /\ UNCHANGED <<next_handle, new_client>>
    /\ UNCHANGED <<svcvars, poolvars, migvars, pgvars, guivars, ruvars, connection_retry_attempts, connection_retry_delay_ms,
                   shutdown_requested, close_called, hmvars, role, caller, op_count,
                   old_handle, saw_unhealthy, execvars>>

\* A connect that stores the client it created under both roles.
AssignToBothRoles ==
    /\ pc = "assign"
    /\ client' = [r \in Roles |-> new_client]
    /\ pc' = "mark"
    /\ UNCHANGED <<svcvars, poolvars, migvars, pgvars, guivars, ruvars, connection_retry_attempts, connection_retry_delay_ms, healthy,
                   shutdown_requested, close_called, next_handle, hmvars, role,
                   caller, op_count, connectvars, execvars>>

\* connect_to_source: self.source_client = <the client created>
ConnectAssign ==
    /\ pc = "assign"
    /\ client' = [client EXCEPT ![role] = new_client]
    /\ pc' = "mark"
    /\ UNCHANGED <<svcvars, poolvars, migvars, pgvars, guivars, ruvars, connection_retry_attempts, connection_retry_delay_ms, healthy,
                   shutdown_requested, close_called, next_handle, hmvars, role,
                   caller, op_count, connectvars, execvars>>

\* connect_to_source: the flag set under the lock, return self.source_client
ConnectMark ==
    /\ pc = "mark"
    /\ health_check_lock = "free"
    /\ healthy' = [healthy EXCEPT ![role] = MarkedHealthy]
    /\ conn_result' = client[role]
    /\ conn_kind' = "fresh"
    /\ pc' = ReturnTo(caller)
    /\ UNCHANGED <<svcvars, poolvars, migvars, pgvars, guivars, ruvars, connection_retry_attempts, connection_retry_delay_ms, client,
                   shutdown_requested, close_called, next_handle, hmvars, role,
                   caller, op_count, old_handle, saw_unhealthy, new_client, conn_attempt, conn_attempts,
                   delays, conn_err, execvars>>

\* The caller calls execute_with_retry(operation, r): range(max_retries) is
\* empty for max_retries = 0 and the function returns None.
ExecuteCall(r) ==
    /\ pc = "idle" /\ op_count < MaxOps
    /\ role' = r /\ caller' = "executor" /\ op_count' = op_count + 1
    /\ ex_attempt' = 0 /\ ex_calls' = 0 /\ ex_last' = "none" /\ ex_waits' = <<>> /\ ex_reconnects' = 0
    /\ IF operation_retry_attempts = 0
       THEN ex_result' = [kind |-> "return_none", err |-> "none"] /\ pc' = "idle"
       ELSE ex_result' = NoResult /\ pc' = "invoke"
    /\ EnterConnect
    /\ UNCHANGED <<svcvars, poolvars, migvars, pgvars, guivars, ruvars, mgrvars, hmvars>>

\* execute_with_retry: operation(*args) and the except clause up to the
\* call of connect_to_source / connect_to_destination.
ExecInvoke ==
    /\ pc = "invoke"
    /\ \E o \in OperationOutcomes :
        /\ ex_calls' = ex_calls + 1
        /\ ex_last' = o
        /\ IF o = "ok"
           THEN /\ ex_result' = [kind |-> "return", err |-> "none"]
                /\ pc' = "idle"
                /\ UNCHANGED <<ex_reconnects, connectvars>>
           ELSE IF ExecutorCatches(o) /\ RetriesRemain(ex_attempt, operation_retry_attempts)
                THEN /\ ex_reconnects' = ex_reconnects + 1
                     /\ pc' = "check"
                     /\ EnterConnect
                     /\ UNCHANGED ex_result
                ELSE /\ ex_result' = [kind |-> "raise", err |-> o]
                     /\ pc' = "idle"
                     /\ UNCHANGED <<ex_reconnects, connectvars>>
    /\ op_client' = service_client[role]
    /\ UNCHANGED <<config_batch_size, service_client, poolvars, migvars, pgvars, guivars, ruvars, mgrvars, hmvars, role, caller, op_count, ex_attempt, ex_waits>>

\* execute_with_retry: time.sleep(2 ** attempt) and the next iteration; what
\* the reconnection returned is not used.
ExecSleep ==
    /\ pc = "sleep"
    /\ ex_waits' = Append(ex_waits, BackoffSeconds(ex_attempt))
    /\ ex_attempt' = ex_attempt + 1
    /\ pc' = "invoke"
    /\ EnterConnect
    /\ UNCHANGED <<svcvars, poolvars, migvars, pgvars, guivars, ruvars, mgrvars, hmvars, role, caller, op_count, ex_calls, ex_last,
                   ex_reconnects, ex_result>>

\* close_connections: the shutdown flag, then each client closed and its
\* field set to None; the flag of a role is cleared under the lock unless
\* close() raised.
CloseConnections ==
    /\ pc = "idle" /\ ~shutdown_requested
    /\ shutdown_requested' = TRUE
    /\ close_called' = close_called \cup { client[r] : r \in {x \in Roles : client[x] # NoClient} }
    /\ \E raised \in SUBSET {x \in Roles : client[x] # NoClient} :
         /\ ({x \in Roles : client[x] # NoClient} \ raised # {}) => health_check_lock = "free"
         /\ healthy' = [r \in Roles |-> IF client[r] # NoClient /\ r \notin raised
                                        THEN FALSE ELSE healthy[r]]
    /\ client' = [r \in Roles |-> NoClient]
    /\ pc' = "join" /\ role' = "source" /\ caller' = "user"
    /\ EnterConnect
    /\ EnterExecute
    /\ UNCHANGED <<svcvars, poolvars, migvars, pgvars, guivars, ruvars, connection_retry_attempts, connection_retry_delay_ms, next_handle,
                   hmvars, op_count>>

\* close_connections: join(timeout=5) on the monitor thread returns when the
\* thread has ended or when five seconds have passed, whichever is first; a
\* sleep of the monitor lasts health_check_interval_seconds and a ping up to
\* the client's timeouts, so the call can return with the thread alive.
CloseJoin ==
    /\ pc = "join"
    /\ pc' = "idle"
    /\ UNCHANGED <<svcvars, poolvars, migvars, pgvars, guivars, ruvars, mgrvars, hmvars, role, caller, op_count, connectvars, execvars>>

\* close_connections has been called and has returned.
CloseReturned == shutdown_requested /\ pc # "join"

InitConn ==
    /\ batch_size = 1 /\ target_is_vcore = TRUE /\ noop_modified = FALSE
    /\ source = <<>> /\ dest_initial = {}
    /\ operation_retry_attempts \in 0..MaxOpRetry
    /\ MigIdle
    /\ \E n \in 0..MaxConnRetry : \E d \in DelayChoices : ConnIdle(n, d)
    /\ PgIdle(0)
    /\ GuiIdle
    /\ SvcIdle
    /\ PoolIdle
    /\ RuIdle

NextConn ==
    \/ HealthProbe
    \/ HealthSet
    \/ HealthError
    \/ HealthSleep
    \/ \E r \in Roles : ConnectCall(r)
    \/ ConnectCheck
    \/ ConnectClose
    \/ ConnectAttempt
    \/ ConnectAssign
    \/ ConnectMark
    \/ \E r \in Roles : ExecuteCall(r)
    \/ ExecInvoke
    \/ ExecSleep
    \/ CloseConnections
    \/ CloseJoin

SpecConn == InitConn /\ [][NextConn]_vars

\* A manager on which earlier calls of connect_to_source and
\* connect_to_destination have returned: each role has no client, or the
\* client its connect stored, marked healthy by the connect and since then
\* possibly marked unhealthy by the monitor.
RoleStates == { [c |-> NoClient, h |-> FALSE], [c |-> FirstSource, h |-> TRUE], [c |-> FirstSource, h |-> FALSE] }
InitRoles ==
    /\ batch_size = 1 /\ target_is_vcore = TRUE /\ noop_modified = FALSE
    /\ source = <<>> /\ dest_initial = {}
    /\ operation_retry_attempts = MaxOpRetry
    /\ MigIdle
    /\ connection_retry_attempts \in 0..MaxConnRetry
    /\ connection_retry_delay_ms = 2000
    /\ \E s, d \in RoleStates :
         /\ client = [source |-> s.c, destination |-> IF d.c = NoClient THEN NoClient ELSE FirstDest]
         /\ healthy = [source |-> s.h, destination |-> d.h]
    /\ shutdown_requested = FALSE /\ close_called = {}
    /\ next_handle = 0
    /\ hm_pc = "probe" /\ hm_role = "source" /\ hm_target = NoClient
    /\ pc = "idle" /\ role = "source" /\ caller = "user" /\ op_count = 0
    /\ old_handle = NoClient /\ saw_unhealthy = FALSE /\ new_client = NoClient
    /\ conn_attempt = 0 /\ conn_attempts = 0 /\ delays = <<>>
    /\ conn_result = NoClient /\ conn_kind = "none" /\ conn_err = "none"
    /\ ex_attempt = 0 /\ ex_calls = 0 /\ ex_last = "none" /\ ex_waits = <<>> /\ ex_reconnects = 0
    /\ ex_result = NoResult
    /\ PgIdle(0)
    /\ GuiIdle
    /\ SvcIdle
    /\ PoolIdle
    /\ RuIdle

NextRoles ==
    \/ HealthProbe
    \/ HealthSet
    \/ HealthError
    \/ HealthSleep
    \/ \E r \in Roles : ConnectCall(r)
    \/ ConnectCheck
    \/ ConnectClose
    \/ ConnectAttempt
    \/ ConnectAssign
    \/ ConnectMark

SpecRoles == InitRoles /\ [][NextRoles]_vars

\* A manager with one retry configuration: two connection attempts, two
\* invocations of an operation. The monitor reads neither setting.
InitConnLive ==
    /\ InitConn
    /\ connection_retry_attempts = 2 /\ connection_retry_delay_ms = 2000
    /\ operation_retry_attempts = 2

\* The monitor is a thread of its own: the scheduler runs it, a ping ends
\* within the client's timeouts and a sleep ends after the interval.
SpecConnLive ==
    /\ InitConnLive /\ [][NextConn]_vars
    /\ WF_vars(HealthProbe) /\ WF_vars(HealthSet) /\ WF_vars(HealthSleep)

(***************************************************************************)
(* PostgreSQLMigrationService.migrate_table_data: the rows of a table are  *)
(* copied in batches of batch_size rows, batch k being the rows at offsets *)
(* (k-1)*batch_size .. k*batch_size - 1 in the order of the first column.  *)
(* Row i of the source table is the integer i.                             *)
(***************************************************************************)

\* What can happen to one call of _migrate_data_batch:
\*   ok            : the rows are fetched, inserted and committed;
\*   insert_failed : the rows are fetched, the insert or the commit raises;
\*   fetch_failed  : the SELECT raises, batch_data is not bound;
\*   raised        : getconn raises outside the try block; the executor
\*                   gives up and the exception reaches migrate_table_data.
BatchOutcomes == {"ok", "insert_failed", "fetch_failed", "raised"}

\* The rows SELECT ... LIMIT batch_size OFFSET off returns.
BatchRows(off) == { i \in 1..pg_rows : off < i /\ i <= off + batch_size }

\* The dict _migrate_batch_operation returns, and for an exception that
\* reaches migrate_table_data the amounts its except clause adds.
BatchResult(o, n) ==
    IF o = "ok" THEN [inserted |-> n, failed |-> 0, processed |-> n]
    ELSE IF o = "insert_failed" THEN [inserted |-> 0, failed |-> n, processed |-> n]
    ELSE IF o = "fetch_failed" THEN [inserted |-> 0, failed |-> batch_size, processed |-> batch_size]
    ELSE [inserted |-> 0, failed |-> batch_size, processed |-> 0]

PgErrorReport == [ZeroPgStats EXCEPT !.success = FALSE, !.has_counts = FALSE]

\* migrate_table_data, lines 262-286: the columns, the count, the stats.
\* With operation_retry_attempts = 0 the executor returns None for the
\* columns, and a table whose columns cannot be read raises: the call
\* returns the error report.  get_table_count returns 0 when the count fails.
PgStartTable ==
    /\ pg_pc \in {"idle", "done"}
    /\ pg_runs < MaxRuns
    /\ pg_runs' = pg_runs + 1
    /\ pg_prior' = pg_dest
    /\ pg_offset' = 0
    /\ pg_log' = <<>>
    /\ \E columns \in BOOLEAN : \E total \in {pg_rows, 0} :
         IF operation_retry_attempts = 0 \/ ~columns
         THEN /\ pg_pc' = "done" /\ pg_stats' = PgErrorReport
              /\ UNCHANGED pg_total_records
         ELSE /\ pg_total_records' = total
              /\ pg_stats' = [ZeroPgStats EXCEPT !.total_records = total]
              /\ pg_pc' = IF total = 0 THEN "done" ELSE "loop"
    /\ UNCHANGED <<svcvars, poolvars, migvars, connvars, guivars, ruvars, pg_rows, pg_dest, pg_unique>>

\* The source connections the invocations of one batch operation keep: an
\* outcome other than "raised" has taken and returned both connections; for
\* "raised" each invocation the executor made (one when the error is outside
\* the classes it catches, operation_retry_attempts otherwise) failed at the
\* first getconn, keeping nothing, or at the second, keeping one.
KeptBySecondGetconn(o) ==
    IF o # "raised" THEN {0}
    ELSE { k \in 0..operation_retry_attempts : pool_out["source"] + k <= PoolSize }

\* The relational monitor's probe of one pool: getconn, SELECT 1, putconn,
\* the flag; the except clause writes the flag and returns nothing to the
\* pool.
ProbeOutcomes == {"ok", "getconn_failed", "query_failed"}
KeptByProbe(o) == IF o = "query_failed" THEN 1 ELSE 0
PgHealthProbe(r) ==
    \E o \in ProbeOutcomes :
       /\ pool_out[r] >= PoolSize => o = "getconn_failed"
       /\ pool_out' = [pool_out EXCEPT ![r] = @ + KeptByProbe(o)]
       /\ pool_healthy' = [pool_healthy EXCEPT ![r] = (o = "ok")]
       /\ UNCHANGED <<svcvars, migvars, connvars, guivars, ruvars, pgvars>>

\* migrate_table_data, lines 292-304: one iteration of the while loop.
PgBatch ==
    /\ pg_pc = "loop" /\ pg_offset < pg_total_records
    /\ \E o \in BatchOutcomes :
         LET rows == BatchRows(pg_offset)
             r == BatchResult(o, Cardinality(rows))
         IN  \* a row the destination's constraint rejects fails the INSERT
             /\ (pg_unique /\ \E i \in rows : pg_dest[i] > 0) => o # "ok"
             \* getconn of a pool with every connection taken raises PoolError
             /\ (\E x \in Roles : pool_out[x] >= PoolSize) => o = "raised"
             \* lines 532-533 and 581-583: the finally returns both
             \* connections; an invocation whose second getconn raises never
             \* enters the try and keeps the source connection it took
             /\ \E kept \in KeptBySecondGetconn(o) :
                  pool_out' = [pool_out EXCEPT !["source"] = @ + kept]
             /\ pg_dest' = IF o = "ok"
                           THEN [i \in 1..pg_rows |-> IF i \in rows THEN pg_dest[i] + 1 ELSE pg_dest[i]]
                           ELSE pg_dest
             /\ pg_stats' = [pg_stats EXCEPT !.migrated_records = @ + r.inserted,
                                             !.failed_records = @ + r.failed]
             /\ pg_log' = Append(pg_log, [rows |-> Cardinality(rows), outcome |-> o,
                                          inserted |-> r.inserted, failed |-> r.failed])
    /\ pg_offset' = pg_offset + batch_size
    /\ UNCHANGED <<svcvars, pool_healthy, migvars, connvars, guivars, ruvars, pg_rows, pg_pc, pg_total_records, pg_unique, pg_runs, pg_prior>>

\* migrate_table_data, lines 306-314: the loop has ended, the stats are
\* returned.
PgFinishTable ==
    /\ pg_pc = "loop" /\ pg_offset >= pg_total_records
    /\ pg_pc' = "done"
    /\ UNCHANGED <<svcvars, poolvars, migvars, connvars, guivars, ruvars, pg_rows, pg_dest, pg_total_records, pg_offset, pg_stats, pg_log,
                   pg_unique, pg_runs, pg_prior>>

InitPg ==
    /\ batch_size \in 1..MaxBatch
    /\ operation_retry_attempts \in {0, MaxOpRetry}
    /\ target_is_vcore = TRUE /\ noop_modified = FALSE
    /\ source = <<>> /\ dest_initial = {}
    /\ MigIdle
    /\ ConnIdle(0, 0)
    /\ \E n \in 0..MaxDocs :
         /\ pg_rows = n /\ pg_dest = NoRows(n) /\ pg_prior = NoRows(n)
    /\ pg_unique \in BOOLEAN
    /\ pg_runs = 0
    /\ pg_pc = "idle" /\ pg_total_records = 0 /\ pg_offset = 0
    /\ pg_stats = ZeroPgStats /\ pg_log = <<>>
    /\ GuiIdle
    /\ SvcIdle
    /\ PoolIdle
    /\ RuIdle

NextPg ==
    \/ PgStartTable
    \/ PgBatch
    \/ PgFinishTable
    \/ \E r \in Roles : PgHealthProbe(r)

SpecPg == InitPg /\ [][NextPg]_vars

(***************************************************************************)
(* CosmosDBMigrationGUI: the migration thread of start_migration for one   *)
(* database and the Stop button.  The thread calls migrate_collection once *)
(* per collection; the steps of that call are the actions EnsureContainer, *)
(* CountDocuments, ReadDocument, CursorError and EndOfCursor above, the    *)
(* thread's own loop taking the place of migrate_database's (db_pc "loop").*)
(***************************************************************************)
\* start_migration, lines 1286-1290 and migration_task lines 1212-1216: the
\* stop flag is cleared, the thread started, the collections listed.  A
\* listing that raises or returns None ends the thread (lines 1271-1284).
GuiStartMigration ==
    /\ gui_pc = "idle"
    /\ runs < MaxRuns
    /\ migration_stopped' = FALSE
    /\ stop_mark' = NoneVal
    /\ \E o \in OutcomeSeqs(operation_retry_attempts, ReadErrors, Budget) :
         LET r == execute_with_retry(o, operation_retry_attempts)
             got == ReadThroughExecutor(r)
         IN  /\ faults' = faults + FailedCalls(r)
             /\ IF got \in {"none", "propagate"}
                THEN /\ gui_pc' = "idle" /\ db_pc' = "aborted" /\ mc_pc' = "idle"
                     /\ collections' = <<>> /\ db_idx' = 0
                ELSE /\ gui_pc' = "running" /\ db_pc' = "loop" /\ mc_pc' = "pick"
                     /\ collections' = (IF got = "value" THEN UnitList ELSE <<>>)
                     /\ db_idx' = 1
    /\ runs' = runs + 1
    /\ attempted' = <<>>
    /\ batch_log' = <<>>
    /\ report' = NoReport
    /\ UNCHANGED <<svcvars, poolvars, connvars, pgvars, ruvars, cfgvars, destvars, db_stats, db_result, cursor_pos, batch,
                   total_documents, stats, clean_runs, prior_clean>>

\* migration_task, lines 1219-1226: the head of the loop over the collections.
\* The stop flag is read here and nowhere else; the loop ends when it is set
\* or the collections are exhausted, and the finally clause of lines
\* 1279-1284 clears the flag.
GuiNextUnit ==
    /\ gui_pc = "running" /\ mc_pc = "pick"
    /\ IF migration_stopped \/ db_idx > Len(collections)
       THEN /\ gui_pc' = "idle" /\ db_pc' = "done" /\ mc_pc' = "idle"
            /\ migration_stopped' = FALSE
       ELSE /\ mc_pc' = "ensure"
            /\ UNCHANGED <<gui_pc, db_pc, migration_stopped>>
    /\ UNCHANGED <<svcvars, poolvars, connvars, pgvars, ruvars, cfgvars, destvars, collections, db_idx, db_stats, db_result, runs,
                   cursor_pos, batch, total_documents, stats, report, histvars, stop_mark>>

\* migration_task, lines 1226-1235: migrate_collection returned; its result
\* is logged and the loop goes to the next collection.
GuiLogResult ==
    /\ gui_pc = "running" /\ mc_pc = "return"
    /\ db_idx' = db_idx + 1
    /\ mc_pc' = "pick"
    /\ cursor_pos' = 0 /\ batch' = <<>> /\ total_documents' = 0
    /\ stats' = ZeroStats /\ report' = NoReport
    /\ batch_log' = <<>>
    /\ stop_mark' = NoneVal
    /\ UNCHANGED <<svcvars, poolvars, connvars, pgvars, ruvars, cfgvars, destvars, db_pc, collections, db_stats, db_result, runs,
                   attempted, faults, clean_runs, prior_clean, migration_stopped, gui_pc>>

\* stop_migration, lines 1353-1358: the Stop button, enabled while the thread
\* runs and disabled by its own handler, sets the flag.  stop_mark records
\* how many batches the collection in transfer had written at that moment.
StopMigration ==
    /\ gui_pc = "running" /\ ~migration_stopped
    /\ migration_stopped' = TRUE
    /\ stop_mark' = IF mc_pc \in {"ensure", "count", "stream"} THEN Len(batch_log) ELSE NoneVal
    /\ UNCHANGED <<svcvars, poolvars, connvars, pgvars, ruvars, migvars, gui_pc>>

InitGui ==
    /\ batch_size \in 1..MaxBatch
    /\ operation_retry_attempts \in {1, MaxOpRetry}
    /\ target_is_vcore \in BOOLEAN
    /\ noop_modified = FALSE
    /\ source \in SourceChoices
    /\ dest_initial = {}
    /\ MigIdle
    /\ ConnIdle(0, 0)
    /\ PgIdle(0)
    /\ GuiIdle
    /\ SvcIdle
    /\ PoolIdle
    /\ RuIdle

NextGui ==
    \/ GuiStartMigration
    \/ GuiNextUnit
    \/ EnsureContainer
    \/ CountDocuments
    \/ ReadDocument
    \/ CursorError
    \/ EndOfCursor
    \/ GuiLogResult
    \/ StopMigration

SpecGui == InitGui /\ [][NextGui]_vars

(***************************************************************************)
(* CosmosDBRUManager (the capacity adapter) and the two places of          *)
(* MigrationService that use it: __init__, which detects the kind of the   *)
(* destination, and the container step of migrate_collection.              *)
(***************************************************************************)
\* config.ru_manual_throughput, config.ru_autoscale_max_throughput and
\* config.ru_default_partition_key; 0 stands for a setting a command does
\* not carry, "" for a partition key the caller did not give (None or "").
ManualRU == 400
AutoscaleMaxRU == 4000
DefaultKey == "_id"
NoThroughput == 0
NoKey == ""
\* The partition keys a caller can pass: none, or a field of the records.
Hints == {NoKey, "region"}

\* What the destination answers to db.command("serverStatus"): a document
\* with the indicators of Cosmos DB, a document without them, or an error.
StatusAnswers == {"cosmos", "other", "fail"}
\* What it answers to a creation command: success, or a failure.  The
\* failures "NamespaceExists", "CommandNotFound", "Throttled" and
\* "Unauthorized" are raised by the driver as OperationFailure, a network
\* failure as ConnectionFailure.
CreateAnswers == {"ok", "NamespaceExists", "CommandNotFound", "Throttled", "Unauthorized", "ConnectionFailure"}
IsOperationFailure(a) == a \in {"NamespaceExists", "CommandNotFound", "Throttled", "Unauthorized"}

\* detect_cosmos_db_type, lines 23-64.
detect_cosmos_db_type(status, create) ==
    IF status = "fail" THEN "unknown"                 \* except Exception, line 62
    ELSE IF status = "other" THEN "unknown"           \* line 60
    ELSE IF create = "ok" THEN "ru"                   \* line 50
    ELSE IF IsOperationFailure(create) THEN "vcore"   \* except OperationFailure, line 52
    ELSE "unknown"                                    \* except Exception, line 62

\* The creation command of create_collection_with_throughput, lines 82-106.
BothSettings(mode) == [manual |-> ManualRU, autoscale |-> AutoscaleMaxRU]
ThroughputSetting(mode) ==
    IF mode = "autoscale"
    THEN [manual |-> NoThroughput, autoscale |-> AutoscaleMaxRU]
    ELSE [manual |-> ManualRU, autoscale |-> NoThroughput]
CreateCommand(u, partition_key, mode) ==
    [unit |-> u, kind |-> "ru",
     key |-> IF partition_key = NoKey THEN DefaultKey ELSE partition_key,
     manual |-> ThroughputSetting(mode).manual,
     autoscale |-> ThroughputSetting(mode).autoscale]
\* db.create_collection(name): no throughput, no partition key.
PlainCommand(u) ==
    [unit |-> u, kind |-> "plain", key |-> NoKey, manual |-> NoThroughput, autoscale |-> NoThroughput]

\* The container of unit u after the destination answered `answer` to the
\* command cmd: created as the command says, or, when the answer is that it
\* exists already, as another client created it in the meantime.
Created(cmd) == [by |-> "adapter", key |-> cmd.key, manual |-> cmd.manual, autoscale |-> cmd.autoscale]
Foreign == [by |-> "other", key |-> NoKey, manual |-> NoThroughput, autoscale |-> NoThroughput]
AfterCommand(containers, cmd, answer) ==
    IF answer = "ok" THEN [containers EXCEPT ![cmd.unit] = Created(cmd)]
    ELSE IF answer = "NamespaceExists" THEN [containers EXCEPT ![cmd.unit] = Foreign]
    ELSE containers

\* create_collection_with_throughput, lines 108-128: true for ok = 1 and for
\* an OperationFailure whose text holds "NamespaceExists", false for every
\* other failure.
ExistsIsFailure(answer) == answer = "ok"
create_collection_with_throughput(answer) == answer = "ok" \/ answer = "NamespaceExists"

\* ensure_collection_exists(database, u, hint), lines 208-246, the
\* destination answering `list` to the listing and `create` to the creation
\* command if one is issued.  The result: the value returned, the commands
\* issued and the containers afterwards.
\* if collection_name in db.list_collection_names(), lines 224 and (in
\* migrate_collection) 225.
NeverThere(u) == FALSE
AlreadyThere(u) == ru_containers[u] # NoContainer
\* The value a call returns: "true", "false", or "raised" for an exception.
Ret(b) == IF b THEN "true" ELSE "false"
EnsureNoOp(ret) == [ret |-> ret, cmds |-> <<>>, containers |-> ru_containers]
EnsureCollection(u, hint, list, create) ==
    IF list = "fail" THEN EnsureNoOp("false")                        \* lines 244-246
    ELSE IF AlreadyThere(u) THEN EnsureNoOp("true")                  \* lines 224-226
    ELSE IF target_is_vcore
    THEN [ret |-> Ret(create = "ok"),                                \* lines 228-232, 244-246
          cmds |-> <<PlainCommand(u)>>,
          containers |-> AfterCommand(ru_containers, PlainCommand(u), create)]
    ELSE LET cmd == CreateCommand(u, IF hint = NoKey THEN DefaultKey ELSE hint, ru_throughput_mode)
         IN  [ret |-> Ret(create_collection_with_throughput(create)), \* lines 235-242
              cmds |-> <<cmd>>,
              containers |-> AfterCommand(ru_containers, cmd, create)]

\* The container step of migrate_collection, lines 198-227: through the
\* adapter with the recommended key when the configuration says the target
\* is not vCore, with the standard calls otherwise (an exception of theirs
\* leaves migrate_collection through its except clause: "raised").
ContainerStep(u, recommended, list, create) ==
    IF ~target_is_vcore
    THEN EnsureCollection(u, recommended, list, create)
    ELSE IF list = "fail" THEN EnsureNoOp("raised")
    ELSE IF AlreadyThere(u) THEN EnsureNoOp("true")
    ELSE [ret |-> IF create = "ok" THEN "true" ELSE "raised",
          cmds |-> <<PlainCommand(u)>>,
          containers |-> AfterCommand(ru_containers, PlainCommand(u), create)]

\* The answers an environment can give to one call: a creation answer is
\* drawn only when the command is issued, and "NamespaceExists" is the answer
\* when another client created the container after the listing.
Issued(u, list) == list = "ok" /\ ru_containers[u] = NoContainer

\* MigrationService.__init__, lines 41-54: the detection, and the override
\* of config.target_is_vcore when it gives "ru" or "vcore".
DetectTarget ==
    /\ ru_pc = "new"
    /\ \E status \in StatusAnswers : \E create \in CreateAnswers \ {"NamespaceExists"} :
         /\ status # "cosmos" => create = "ok"     \* no creation is attempted
         /\ ru_probe' = [status |-> status, create |-> IF status = "cosmos" THEN create ELSE "none"]
         /\ detected_target_type' = detect_cosmos_db_type(status, create)
         /\ target_is_vcore' = IF detect_cosmos_db_type(status, create) = "ru" THEN FALSE
                               ELSE IF detect_cosmos_db_type(status, create) = "vcore" THEN TRUE
                               ELSE target_is_vcore
    /\ ru_pc' = "ready"

\* MigrationService.__init__ as the unit tests of the container step call
\* it: the clients and the batch size play no part.
RuConstruct ==
    /\ DetectTarget
    /\ UNCHANGED <<svcvars, poolvars, connvars, pgvars, guivars, batch_size, operation_retry_attempts, noop_modified, source,
                   dest_initial, destvars, dbvars, mcvars, histvars, ru_throughput_mode, ru_configured_vcore,
                   ru_containers, ru_commands, ru_last, ru_calls, ru_sample, ru_recommended>>

(***************************************************************************)
(* The front-ends (main.py lines 69-91, gui.py lines 882-900): a           *)
(* ConnectionManager, the two connections, then the MigrationService built *)
(* from the two clients returned, the Config and the manager.  The         *)
(* operations the service hands to execute_with_retry read the clients it  *)
(* was constructed with (self.source_client, self.dest_client).            *)
(***************************************************************************)
\* The batch_size argument of the front-ends' MigrationService(...) call:
\* none is passed, the parameter takes its default.
BatchSizeArgument == DefaultBatchSize

\* BATCH_SIZE of the environment or the GUI's batch size field.
BatchSizeChoices == {500, DefaultBatchSize}

\* MigrationService(source_client, destination_client, config,
\* connection_manager=connection_manager) and its __init__, lines 35-54.
ServiceCreated == service_client["source"] # NoClient
CreateService ==
    /\ pc = "idle" /\ ~ServiceCreated
    /\ client["source"] # NoClient /\ client["destination"] # NoClient
    /\ service_client' = client
    /\ batch_size' = BatchSizeArgument
    /\ DetectTarget
    /\ UNCHANGED <<config_batch_size, op_client, poolvars, connvars, pgvars, guivars,
                   operation_retry_attempts, noop_modified, source, dest_initial,
                   destvars, dbvars, mcvars, histvars, ru_throughput_mode, ru_configured_vcore,
                   ru_containers, ru_commands, ru_last, ru_calls, ru_sample, ru_recommended>>

\* An operation of the service run through the executor.
ServiceExecute(r) == ServiceCreated /\ ExecuteCall(r)

\* The state in which the front-end constructs the service: both clients
\* connected at the first attempt and marked healthy, the monitor running.
InitSvc ==
    /\ batch_size = 0 /\ target_is_vcore = TRUE /\ noop_modified = FALSE
    /\ source = <<>> /\ dest_initial = {}
    /\ operation_retry_attempts \in 0..MaxOpRetry
    /\ MigIdle
    /\ connection_retry_attempts \in 1..MaxConnRetry
    /\ connection_retry_delay_ms = 2000
    /\ client = [source |-> FirstSource, destination |-> FirstDest]
    /\ healthy = [r \in Roles |-> MarkedHealthy]
    /\ shutdown_requested = FALSE /\ close_called = {}
    /\ next_handle = 0
    /\ hm_pc = "probe" /\ hm_role = "source" /\ hm_target = NoClient
    /\ pc = "idle" /\ role = "destination" /\ caller = "user" /\ op_count = 0
    /\ old_handle = NoClient /\ saw_unhealthy = FALSE /\ new_client = FirstDest
    /\ conn_attempt = 0 /\ conn_attempts = 1 /\ delays = <<>>
    /\ conn_result = FirstDest /\ conn_kind = "fresh" /\ conn_err = "none"
    /\ ex_attempt = 0 /\ ex_calls = 0 /\ ex_last = "none" /\ ex_waits = <<>> /\ ex_reconnects = 0
    /\ ex_result = NoResult
    /\ PgIdle(0)
    /\ GuiIdle
    /\ config_batch_size \in BatchSizeChoices
    /\ service_client = [r \in Roles |-> NoClient] /\ op_client = NoClient
    /\ PoolIdle
    /\ RuIdle

NextSvc ==
    \/ CreateService
    \/ HealthProbe
    \/ HealthSet
    \/ HealthError
    \/ HealthSleep
    \/ \E r \in Roles : ServiceExecute(r)
    \/ ConnectCheck
    \/ ConnectClose
    \/ ConnectAttempt
    \/ ConnectAssign
    \/ ConnectMark
    \/ ExecInvoke
    \/ ExecSleep

SpecSvc == InitSvc /\ [][NextSvc]_vars

\* One call, by `via`, of the container step for unit u.
RuCall(via, u, hint, list, create, r) ==
    /\ ru_pc = "ready"
    /\ ru_calls < MaxCalls
    /\ ~Issued(u, list) => create = "ok"
    /\ ru_calls' = ru_calls + 1
    /\ ru_commands' = ru_commands \o r.cmds
    /\ ru_containers' = r.containers
    /\ ru_last' = [via |-> via, unit |-> u, hint |-> hint, list |-> list,
                   create |-> IF Issued(u, list) THEN create ELSE "none",
                   existed |-> ru_containers[u] # NoContainer,
                   issued |-> Len(r.cmds), ret |-> r.ret]
    /\ UNCHANGED <<svcvars, poolvars, migvars, connvars, pgvars, guivars, ru_throughput_mode, ru_configured_vcore, ru_probe,
                   detected_target_type, ru_pc, ru_sample, ru_recommended>>

\* ensure_collection_exists called on the adapter.
RuEnsure ==
    \E u \in Units : \E hint \in Hints : \E list \in {"ok", "fail"} : \E create \in CreateAnswers :
       RuCall("adapter", u, hint, list, create, EnsureCollection(u, hint, list, create))

\* migrate_collection at its container step; the key it passes is the one
\* get_recommended_partition_key returned, a field or the default.
RuContainerStep ==
    \E u \in Units : \E recommended \in {DefaultKey, "region"} :
    \E list \in {"ok", "fail"} : \E create \in CreateAnswers :
       RuCall("transfer", u, recommended, list, create, ContainerStep(u, recommended, list, create))

InitRu ==
    /\ batch_size = 1 /\ operation_retry_attempts = MaxOpRetry
    /\ noop_modified = FALSE /\ source = <<>> /\ dest_initial = {}
    /\ MigIdle
    /\ ConnIdle(0, 0)
    /\ PgIdle(0)
    /\ GuiIdle
    /\ SvcIdle
    /\ PoolIdle
    /\ ru_throughput_mode \in {"manual", "autoscale"}
    /\ ru_configured_vcore \in BOOLEAN
    /\ target_is_vcore = ru_configured_vcore
    /\ ru_probe = NoProbe /\ detected_target_type = "none"
    /\ ru_containers = [u \in Units |-> NoContainer]
    /\ ru_commands = <<>> /\ ru_last = NoCall /\ ru_calls = 0 /\ ru_pc = "new"
    /\ ru_sample = <<>> /\ ru_recommended = "none"

NextRu ==
    \/ RuConstruct
    \/ RuEnsure
    \/ RuContainerStep

SpecRu == InitRu /\ [][NextRu]_vars

(***************************************************************************)
(* CosmosDBRUManager.get_recommended_partition_key: the sample of the      *)
(* source collection and the field recommended from it.                    *)
(***************************************************************************)
\* A document of the sample has "_id" and, each present or not, the fields
\* of KeyFields in this order.  A value is an integer or a string of digits;
\* Absent stands for a field the document does not have.
KeyFields == <<"region", "tenant">>
Absent == [t |-> "absent", v |-> 0]
IntValue(n) == [t |-> "int", v |-> n]
StrValue(n) == [t |-> "str", v |-> n]
\* The values of the two fields in the source: "region" holds the number 1
\* or the string "1", "tenant" a number.
FieldValues(f) ==
    IF f = "region" THEN {Absent, IntValue(1), StrValue(1)}
    ELSE {Absent} \cup { IntValue(n) : n \in 1..(MaxSample - 1) }
SampleDocs == { [region |-> r, tenant |-> t] : r \in FieldValues("region"), t \in FieldValues("tenant") }
\* list(source_collection.find().limit(100)): at most MaxSample documents.
Samples == UNION { [1..n -> SampleDocs] : n \in 0..MaxSample }

\* str(doc[field]): the digits, for the number n and for the string "n".
Str(value) == value.v

\* field_stats[field]: the count and the unique values, lines 271-280.
Holders(sample, f) == { i \in 1..Len(sample) : sample[i][f] # Absent }
FieldCount(sample, f) == Cardinality(Holders(sample, f))
unique_values(sample, f) == { Str(sample[i][f]) : i \in Holders(sample, f) }
\* total_score of lines 289-293, times 10 * len(sample_docs):
\* frequency_score * 0.6 + cardinality_score * 0.4.
total_score(sample, f) == 6 * FieldCount(sample, f) + 4 * Cardinality(unique_values(sample, f))
\* scored_fields, lines 285-294: the fields other than "_id" that some
\* document of the sample has, in the order field_stats met them.
FirstHolder(sample, f) == CHOOSE i \in Holders(sample, f) : \A j \in Holders(sample, f) : i <= j
Position(f) == CHOOSE k \in 1..Len(KeyFields) : KeyFields[k] = f
scored_fields(sample) == { KeyFields[k] : k \in { j \in 1..Len(KeyFields) : Holders(sample, KeyFields[j]) # {} } }
Before(sample, f, g) ==
    \/ FirstHolder(sample, f) < FirstHolder(sample, g)
    \/ FirstHolder(sample, f) = FirstHolder(sample, g) /\ Position(f) <= Position(g)
\* The sort by score, descending and stable, and its first element.
BestScore(sample) ==
    CHOOSE f \in scored_fields(sample) :
       \A g \in scored_fields(sample) :
          \/ total_score(sample, f) > total_score(sample, g)
          \/ total_score(sample, f) = total_score(sample, g) /\ Before(sample, f, g)
\* get_recommended_partition_key, lines 259-303.
get_recommended_partition_key(sample) ==
    IF sample = <<>> THEN DefaultKey
    ELSE IF scored_fields(sample) = {} THEN DefaultKey
    ELSE BestScore(sample)

\* One call: the sample is read and analysed, or the read raises and the
\* default is returned (lines 305-307).
RuRecommend ==
    /\ ru_pc = "new"
    /\ \E read_ok \in BOOLEAN :
         /\ ru_recommended' = IF read_ok THEN get_recommended_partition_key(ru_sample) ELSE DefaultKey
         /\ ru_pc' = IF read_ok THEN "recommended" ELSE "failed"
    /\ UNCHANGED <<svcvars, poolvars, migvars, connvars, pgvars, guivars, ru_throughput_mode, ru_configured_vcore, ru_probe,
                   detected_target_type, ru_containers, ru_commands, ru_last, ru_calls, ru_sample>>

InitKey ==
    /\ batch_size = 1 /\ operation_retry_attempts = MaxOpRetry
    /\ target_is_vcore = FALSE /\ noop_modified = FALSE /\ source = <<>> /\ dest_initial = {}
    /\ MigIdle
    /\ ConnIdle(0, 0)
    /\ PgIdle(0)
    /\ GuiIdle
    /\ SvcIdle
    /\ PoolIdle
    /\ ru_throughput_mode = "manual" /\ ru_configured_vcore = FALSE
    /\ ru_probe = NoProbe /\ detected_target_type = "none"
    /\ ru_containers = [u \in Units |-> NoContainer]
    /\ ru_commands = <<>> /\ ru_last = NoCall /\ ru_calls = 0 /\ ru_pc = "new"
    /\ ru_sample \in Samples
    /\ ru_recommended = "none"

NextKey == RuRecommend

SpecKey == InitKey /\ [][NextKey]_vars

(***************************************************************************)
(* Claims about the batch transfer engine.                                 *)
(***************************************************************************)
RECURSIVE SumLens(_)
SumLens(log) == IF log = <<>> THEN 0 ELSE log[1].len + SumLens(Tail(log))
Ceil(n, b) == (n + b - 1) \div b
\* migrate_collection streamed to the end of the cursor and returned its statistics.
Streamed == mc_pc = "return" /\ report.has_detail
DestInitial(u) == IF u = 1 THEN dest_initial ELSE {}

\* C1: the streaming loop of migrate_collection over N documents with batch
\* size B hands the write path ceil(N/B) batches, all of B documents except
\* possibly the last, their lengths summing to N; while the loop runs, every
\* batch written so far holds B documents and every document read is in a
\* written batch or in the batch being filled; an empty source is given no
\* batch at all.
C1_BatchCount ==
    /\ (db_pc = "loop" /\ mc_pc = "stream") =>
          /\ \A i \in 1..Len(batch_log) : batch_log[i].len = batch_size
          /\ SumLens(batch_log) + Len(batch) = cursor_pos
    /\ Streamed =>
          /\ Len(batch_log) = Ceil(Len(SourceOf(Unit)), batch_size)
          /\ \A i \in 1..(Len(batch_log) - 1) : batch_log[i].len = batch_size
          /\ \A i \in 1..Len(batch_log) : batch_log[i].len \in 1..batch_size
          /\ SumLens(batch_log) = Len(SourceOf(Unit))
    /\ (db_pc = "loop" /\ mc_pc = "return" /\ Len(SourceOf(Unit)) = 0) => batch_log = <<>>
\* A full batch followed by a shorter last batch.
C1_Witness ==
    /\ Streamed
    /\ Len(batch_log) >= 2
    /\ batch_log[Len(batch_log)].len < batch_size

\* C2: a batch whose write met fewer transport errors than
\* operation_retry_attempts is retried by the executor and is not reported
\* failed; a batch lost to a transport error is reported failed only after
\* operation_retry_attempts invocations.
C2_TransientWriteRetried ==
    \A i \in 1..Len(batch_log) :
        (batch_log[i].reaction \in ConnectionClass /\ batch_log[i].stats.failed > 0)
            => batch_log[i].calls >= operation_retry_attempts

\* C3: once a unit whose documents all carry an identity has been migrated
\* into an initially empty destination by a run without failed documents,
\* the destination holds exactly one document per source identity, and a
\* further run leaves that set as it is.
C3_UpsertConverges ==
    \A u \in Units :
        (clean_runs[u] /\ AllHaveIds(SourceOf(u)) /\ DestInitial(u) = {}) =>
            /\ Ids(dest_docs[u]) = Ids(SeqToSet(SourceOf(u)))
            /\ Cardinality(dest_docs[u]) = Len(SourceOf(u))
\* The second run over a migrated unit of several documents has returned.
C3_Witness ==
    /\ Streamed /\ report.stats.failed_documents = 0
    /\ prior_clean
    /\ Unit = 1 /\ AllHaveIds(source) /\ Len(source) >= 2 /\ dest_initial = {}
    /\ Len(batch_log) >= 1

\* C4: the report of a second run over an already migrated unit whose
\* documents all carry an identity has a modified count equal to the
\* destination's document count and inserted and upserted counts of 0.
C4_SecondRunModifiedAll ==
    (/\ Streamed /\ report.stats.failed_documents = 0
     /\ prior_clean
     /\ AllHaveIds(SourceOf(Unit)) /\ DestInitial(Unit) = {})
    => /\ report.stats.modified_documents = Cardinality(dest_docs[Unit])
       /\ report.stats.inserted_documents = 0
       /\ report.stats.upserted_documents = 0

\* C5: migrate_database attempts every listed collection exactly once,
\* whatever happens to the others, and returns the aggregate statistics.
C5_AllUnitsAttempted ==
    (db_pc \in {"done", "aborted"} /\ collections # <<>>) =>
        /\ attempted = collections
        /\ db_result = "stats"

(***************************************************************************)
(* Claims about the connection layer.                                      *)
(***************************************************************************)
\* C6: execute_with_retry invokes the operation at most
\* operation_retry_attempts times; a successful invocation ends the call
\* with a return; an error is given up on before the last attempt only if it
\* is not a transport error, and the error raised is the last one; the i-th
\* wait (counting from 0) is 2^i seconds, each invocation but the first is
\* preceded by one reconnection and one wait, and none follows the final
\* invocation.
C6_ExecutorBounded ==
    /\ ex_calls <= operation_retry_attempts
    /\ \A i \in 1..Len(ex_waits) : ex_waits[i] = 2 ^ (i - 1)
    /\ (caller = "executor" /\ pc = "invoke") =>
          (Len(ex_waits) = ex_calls /\ ex_reconnects = ex_calls)
    /\ ex_last = "ok" => ex_result.kind = "return"
    /\ ex_result.kind = "return" =>
          /\ ex_last = "ok" /\ pc = "idle"
          /\ Len(ex_waits) = ex_calls - 1 /\ ex_reconnects = ex_calls - 1
    /\ ex_result.kind = "raise" =>
          /\ ex_result.err = ex_last /\ pc = "idle"
          /\ Len(ex_waits) = ex_calls - 1 /\ ex_reconnects = ex_calls - 1
          /\ ex_last \in ConnectionClass => ex_calls = operation_retry_attempts
\* Every attempt failed with a transport error and the last one was raised
\* after two waits.
C6_Witness ==
    /\ ex_result.kind = "raise" /\ ex_last \in ConnectionClass
    /\ ex_calls = operation_retry_attempts
    /\ Len(ex_waits) >= 2

\* C7: an invocation that fails with an error that is not a transport error
\* ends execute_with_retry at once: the error is raised, with no
\* reconnection, no wait and no further invocation.
C7_LogicalErrorNotRetried ==
    ex_last \in (ErrorClasses \ ConnectionClass) =>
        /\ ex_result = [kind |-> "raise", err |-> ex_last]
        /\ pc = "idle"
        /\ ex_reconnects = ex_calls - 1 /\ Len(ex_waits) = ex_calls - 1

\* C8: the step of connect_to_source / connect_to_destination that finds a
\* client whose health flag is true returns that client and changes neither
\* the client field, the flag, the set of closed handles nor the count of
\* connection attempts.
C8_HealthyHandleReused ==
    [][ (pc = "check" /\ pc' # "check" /\ client[role] # NoClient /\ healthy[role]) =>
            /\ conn_result' = client[role] /\ conn_kind' = "reused"
            /\ pc' = ReturnTo(caller)
            /\ client' = client /\ healthy' = healthy
            /\ close_called' = close_called /\ next_handle' = next_handle
            /\ conn_attempts' = 0 /\ delays' = <<>> ]_vars
\* A connect call has returned the existing client.
C8_Witness ==
    /\ conn_kind = "reused" /\ conn_result # NoClient
    /\ client[role] = conn_result /\ healthy[role]
    /\ conn_result \notin close_called

\* C9: a connect call that found a client whose health flag is false has
\* closed that client before it starts a connection attempt, and never
\* returns it.
C9_ClosedBeforeFresh ==
    /\ (saw_unhealthy /\ pc \in {"create", "assign", "mark"}) => old_handle \in close_called
    /\ (saw_unhealthy /\ conn_kind # "none") => conn_result # old_handle

\* C10: a connect call that returns a client after k failed attempts has
\* made k + 1 attempts and has slept k times, the i-th sleep (from 0) for
\* connection_retry_delay_ms * 2^i plus the jitter of attempt i, each sleep
\* longer than the one before.
C10_DelaysIncrease ==
    (conn_kind = "fresh" /\ conn_result # NoClient) =>
        /\ conn_attempts = Len(delays) + 1
        /\ \A i \in 1..Len(delays) :
              delays[i] = connection_retry_delay_ms * (2 ^ (i - 1)) + JitterMs(i - 1)
        /\ \A i \in 1..(Len(delays) - 1) : delays[i] < delays[i + 1]

\* C11 (as stated): a connect call whose attempts all failed ends by raising
\* to its caller an error that carries the last cause.
C11_ConnectRaises ==
    conn_kind = "failed" =>
        (ConnectOutcome.kind = "raise" /\ ConnectOutcome.err = conn_err)

\* C11 (amended): with connection_retry_attempts >= 1, a connect call whose
\* attempts all failed has made exactly connection_retry_attempts attempts
\* and slept between them; the error that leaves the creation loop is caught
\* by connect, which sets the client field to None and returns None.
C11_ConnectReturnsNone ==
    conn_kind = "failed" =>
        /\ connection_retry_attempts >= 1
        /\ conn_attempts = connection_retry_attempts
        /\ Len(delays) = connection_retry_attempts - 1
        /\ conn_err \in ConnectErrors
        /\ ConnectOutcome = [kind |-> "return", value |-> NoClient, err |-> "none"]
        /\ conn_result = NoClient
        /\ client[role] = NoClient
\* Several attempts failed and the call returned None.
C11_Witness ==
    /\ conn_kind = "failed" /\ conn_attempts >= 2
    /\ pc = ReturnTo(caller)
    /\ conn_result = NoClient

\* C12: the health flag reflects only the latest probe of the role's current
\* handle: whenever the monitor writes the flag of a role that has a handle,
\* the ping whose outcome it writes was made on that handle, never on a
\* handle that has been replaced since.
C12_ProbeOfCurrentHandle ==
    [][(hm_pc = "ping" /\ hm_pc' # "ping" /\ client[hm_role] # NoClient)
          => hm_target = client[hm_role]]_vars

\* C13 (as stated): the health flag of a role is assigned by the health
\* monitor only.
C13_OnlyMonitorWrites ==
    [][healthy' # healthy => (hm_pc = "ping" /\ hm_pc' # "ping")]_vars

\* C13 (amended): the health flag of a role changes only in a step of the
\* health monitor that ends a ping of that role, in the step of connect that
\* marks its fresh client (to true), in the step of connect that gives up
\* (to false) and in close_connections for a client it closed (to false);
\* the executor's own steps never change it, and connect always leaves the
\* flag true when it has stored a fresh client.
C13_FlagWriters ==
    [][/\ \A r \in Roles : healthy'[r] # healthy[r] =>
            \/ hm_pc = "ping" /\ hm_pc' # "ping" /\ hm_role = r
            \/ pc = "mark" /\ role = r /\ healthy'[r]
            \/ pc = "create" /\ role = r /\ ~healthy'[r] /\ conn_kind' = "failed"
            \/ pc = "idle" /\ pc' = "join" /\ client[r] # NoClient /\ ~healthy'[r]
       /\ (pc = "mark" /\ pc' # "mark") => healthy'[role]
       /\ (pc \in {"invoke", "sleep"} /\ hm_pc' = hm_pc) => healthy' = healthy]_vars
\* connect has stored a fresh client for a role and set its flag while the
\* monitor had not yet pinged any client of that role.
C13_Witness ==
    /\ conn_kind = "fresh" /\ role = "source" /\ healthy["source"]
    /\ client["source"] = conn_result /\ conn_result # NoClient
    /\ hm_pc = "probe" /\ hm_role = "source" /\ op_count = 1 /\ ~shutdown_requested

C16_JoinedBeforeReturn ==
    CloseReturned => hm_pc = "stopped"

\* The batch outcome that the step has just handed to migrate_collection.
Written == batch_log'[Len(batch_log')]
BatchWritten == Len(batch_log') = Len(batch_log) + 1

C18_FailedWithinBatch ==
    /\ \A i \in 1..Len(pg_log) : 0 <= pg_log[i].failed /\ pg_log[i].failed <= pg_log[i].rows
    /\ pg_stats.failed_records <= pg_rows

\* C19: when the bulk write of a batch is lost as a whole (the call raises a
\* driver error that is not a BulkWriteError, or the executor raises), the
\* batch outcome is failed = the number of documents of the batch and
\* inserted = upserted = modified = 0; the outcome is added to the unit's
\* statistics and the transfer goes on with the next batch, or returns its
\* report with success = true when this was the remainder batch.
C19_LostBatchCounted ==
    [][(/\ BatchWritten
        /\ Written.reaction \notin {"ok", "BulkWriteError", "none"})
       => /\ Written.kind = "stats"
          /\ Written.stats.failed = Written.len
          /\ Written.stats.inserted = 0 /\ Written.stats.upserted = 0
          /\ Written.stats.modified = 0 /\ Written.stats.raw_inserted = 0
          /\ stats'.failed_documents = stats.failed_documents + Written.len
          /\ stats'.migrated_documents = stats.migrated_documents
          /\ \/ mc_pc' = "stream" /\ batch' = <<>>
             \/ /\ mc_pc' = "return" /\ cursor_pos = Len(SourceOf(Unit))
                /\ report'.success /\ report'.has_detail
                /\ report'.stats = stats']_vars
\* The first batch of a unit was lost as a whole, and the batch after it,
\* shorter than batch_size, has been written.
C19_Witness ==
    /\ Len(batch_log) >= 2
    /\ batch_log[1].reaction \in ConnectionClass
    /\ batch_log[1].len = 2 /\ batch_log[1].stats.failed = 2 /\ batch_log[1].stats.inserted = 0
    /\ batch_log[2].len = 1 /\ batch_log[2].reaction = "ok"

C21_AtMostOneBatchAfterStop ==
    stop_mark # NoneVal => Len(batch_log) <= stop_mark + 1

\* C22: the source count is not a correctness gate: when the count step
\* returned 0 and migrate_collection returns without an error, every record
\* the source holds has been read from the cursor, as for any other count.
C22_CountIsNotAGate ==
    (db_pc = "loop" /\ mc_pc = "return" /\ report.success /\ total_documents = 0)
        => cursor_pos = Len(SourceOf(Unit))

\* The documents of the batch the step has just written.
WrittenDocs == { SourceOf(Unit)[i] : i \in (cursor_pos' - Written.len + 1)..cursor_pos' }

\* C23: a record without an identity field is inserted as a new destination
\* record: a batch of one such record that the destination applies increases
\* the destination record count by exactly one and leaves every record
\* already present at the destination as it was.
C23_NoIdentityInserted ==
    [][(/\ BatchWritten
        /\ Written.reaction = "ok"
        /\ Written.len = 1
        /\ \A d \in WrittenDocs : d.id = NoId)
          => /\ Cardinality(dest_docs'[Unit]) = Cardinality(dest_docs[Unit]) + 1
             /\ dest_docs[Unit] \subseteq dest_docs'[Unit]]_vars

(***************************************************************************)
(* Claims about the relational transfer run again.                         *)
(***************************************************************************)
\* Every source row is in the destination table exactly once.
AllMigratedOnce(d) == pg_rows > 0 /\ d = [i \in 1..pg_rows |-> 1]

\* C24: migrate_table_data run again on a table whose rows were already
\* migrated leaves the destination table with the same rows as before the
\* run: no row is duplicated and none is lost.
C24_RerunKeepsRows ==
    AllMigratedOnce(pg_prior) => pg_dest = pg_prior

(***************************************************************************)
(* Claims about the capacity adapter.                                      *)
(***************************************************************************)
\* A call of ensure_collection_exists on the adapter has just returned.
EnsureReturned == ru_calls' = ru_calls + 1 /\ ru_last'.via = "adapter"

C26_ExistsIsSuccess ==
    [][(EnsureReturned /\ ru_last'.issued = 1) =>
         /\ ru_last'.create = "NamespaceExists" => ru_last'.ret = "true"
         /\ ru_last'.create \notin {"ok", "NamespaceExists"} => ru_last'.ret = "false"
         /\ ru_last'.ret # "raised"]_vars

\* The command the call that has just returned issued.
LastCommand == ru_commands'[Len(ru_commands')]

\* C27: for a provisioned destination every creation command of a unit's
\* container is the provisioned creation command and carries exactly one
\* throughput setting, the manual RU value when the throughput mode is
\* manual and the autoscale maximum when it is autoscale (never both, never
\* neither), and a non-empty partition key: the key the caller passed (for
\* the transfer, the recommended key) or, when it passed none, the
\* configured default.
C27_OneThroughputAndKey ==
    [][(ru_calls' = ru_calls + 1 /\ ru_last'.issued = 1 /\ ~target_is_vcore) =>
         /\ LastCommand.kind = "ru" /\ LastCommand.unit = ru_last'.unit
         /\ ru_throughput_mode = "manual" =>
               LastCommand.manual = ManualRU /\ LastCommand.autoscale = NoThroughput
         /\ ru_throughput_mode = "autoscale" =>
               LastCommand.autoscale = AutoscaleMaxRU /\ LastCommand.manual = NoThroughput
         /\ (LastCommand.manual = NoThroughput) # (LastCommand.autoscale = NoThroughput)
         /\ LastCommand.key # NoKey
         /\ LastCommand.key = IF ru_last'.hint # NoKey THEN ru_last'.hint ELSE DefaultKey]_vars
\* Two creation commands were issued for a provisioned destination in
\* autoscale mode: one with the key the caller passed, and then one, by a
\* call without a key, with the default key and the autoscale maximum alone.
C27_Witness ==
    /\ ~target_is_vcore /\ ru_throughput_mode = "autoscale"
    /\ Len(ru_commands) = 2
    /\ ru_commands[1].kind = "ru" /\ ru_commands[1].key = "region"
    /\ ru_last.issued = 1 /\ ru_last.hint = NoKey
    /\ ru_commands[2].kind = "ru" /\ ru_commands[2].key = DefaultKey
    /\ ru_commands[2].autoscale = AutoscaleMaxRU /\ ru_commands[2].manual = NoThroughput

\* C29: when the detection returned "unknown" the destination is treated as
\* fixed: the transfer creates the container of a unit with the standard
\* creation call, without throughput and without partition key, whatever
\* target kind the configuration names.
C29_UnknownIsFixed ==
    [][(/\ ru_calls' = ru_calls + 1 /\ ru_last'.via = "transfer" /\ ru_last'.issued = 1
        /\ detected_target_type = "unknown")
          => LastCommand = PlainCommand(ru_last'.unit)]_vars

\* C30: the detection answers "ru" only when the creation of the throwaway
\* provisioned container succeeded, "vcore" only when that creation failed
\* as an unsupported command, and "unknown" for every other failure of the
\* creation command (throttling, authorization, network) or of the
\* introspection command.
C30_DetectionClasses ==
    ru_pc = "ready" =>
        /\ detected_target_type = "ru" => ru_probe.status = "cosmos" /\ ru_probe.create = "ok"
        /\ detected_target_type = "vcore" => ru_probe.status = "cosmos" /\ ru_probe.create = "CommandNotFound"
        /\ (ru_probe.status = "fail" \/ ru_probe.create \in {"Throttled", "Unauthorized", "ConnectionFailure"})
              => detected_target_type = "unknown"

\* The score of the claim for field f of the sample, times 10 * sampleSize:
\* 0.6 * occurrences/sampleSize + 0.4 * distinctValues/sampleSize.
DistinctValues(sample, f) == { sample[i][f] : i \in Holders(sample, f) }
ClaimScore(sample, f) == 6 * FieldCount(sample, f) + 4 * Cardinality(DistinctValues(sample, f))

\* C28: get_recommended_partition_key returns the configured default when
\* the sample is empty or holds only the identity field, and otherwise a
\* non-identity field of the sample whose score
\* 0.6 * frequency + 0.4 * cardinality is maximal among the non-identity
\* fields of the sample.
C28_BestScoringField ==
    ru_pc = "recommended" =>
        IF scored_fields(ru_sample) = {}
        THEN ru_recommended = DefaultKey
        ELSE /\ ru_recommended \in scored_fields(ru_sample)
             /\ \A g \in scored_fields(ru_sample) :
                    ClaimScore(ru_sample, ru_recommended) >= ClaimScore(ru_sample, g)

(***************************************************************************)
(* Claims about the executor as the path of every access, the order of the *)
(* steps of a unit and the report of an aborted unit.                      *)
(***************************************************************************)
\* C31: every source read and every destination access of
\* migrate_collection is executed through execute_with_retry: a single
\* connection failure of such an access, the executor having attempts left,
\* is retried and never ends the unit with that failure as its error.
C31_EveryAccessThroughExecutor ==
    [][(/\ db_pc = "loop" /\ mc_pc \in {"ensure", "count", "stream"}
        /\ operation_retry_attempts >= 2
        /\ faults' = faults + 1)
          => ~(mc_pc' = "return" /\ report'.error \in PyMongoErrors)]_vars

\* C32: the steps of a unit are taken in the order container, count, stream.
\* The count is reached only from a container step that succeeded and the
\* stream only from the count; a batch is written only while streaming, for
\* a unit whose container is in place; and a container step that fails ends
\* the unit with a failure report that carries the error, nothing having
\* been written to the destination for the unit.
C32_ContainerBeforeWrites ==
    [][/\ (mc_pc' = "count" /\ mc_pc # "count") =>
             mc_pc = "ensure" /\ faults' = faults /\ Unit \in dest_collections'
       /\ (mc_pc' = "stream" /\ mc_pc # "stream") => mc_pc = "count"
       /\ BatchWritten => mc_pc = "stream" /\ Unit \in dest_collections
       /\ dest_docs' # dest_docs => BatchWritten
       /\ (mc_pc = "ensure" /\ db_pc = "loop" /\ faults' = faults + 1) =>
             /\ mc_pc' = "return"
             /\ ~report'.success /\ report'.error # "none"
             /\ dest_docs' = dest_docs /\ batch_log' = <<>>
             /\ Unit \notin dest_collections' \ dest_collections]_vars
\* The first unit was transferred into a container that did not exist
\* before; the container step of the second unit has failed and the unit
\* returns a failure report, nothing written for it.
C32_Witness ==
    /\ dest_initial = {} /\ db_pc = "loop" /\ db_idx = 2
    /\ dest_docs[1] # {} /\ 1 \in dest_collections
    /\ mc_pc = "return" /\ ~report.success /\ report.error # "none"
    /\ 2 \notin dest_collections /\ dest_docs[2] = {} /\ batch_log = <<>>

(***************************************************************************)
(* Claims about reconnection by the executor, the handle in use, the       *)
(* health flag and the independence of the roles.                          *)
(***************************************************************************)
\* C33: when an operation run through execute_with_retry has failed with a
\* connection-class error and attempts remain, a fresh connection to the
\* role's endpoint is attempted before the operation is invoked again,
\* whatever the value of the role's health flag.
C33_ReconnectBeforeRetry ==
    [][(/\ caller = "executor" /\ ex_last \in ConnectionClass
        /\ pc' = "sleep" /\ pc # "sleep")
          => conn_kind' # "reused"]_vars


\* C34: after a reconnection triggered by the executor has closed the old
\* handle of a role and stored a new one, every later invocation of the
\* retried operation runs against the new handle and never against the
\* closed one.
C34_RetryUsesNewHandle ==
    [][(/\ pc = "invoke" /\ ex_calls' = ex_calls + 1
        /\ ex_reconnects > 0 /\ close_called # {} /\ client[role] # NoClient)
          => op_client' = client[role] /\ op_client' \notin close_called]_vars


(***************************************************************************)
(* Claims about the report of an aborted transfer.                         *)
(***************************************************************************)
RECURSIVE SumInserted(_)
SumInserted(log) == IF log = <<>> THEN 0 ELSE log[1].stats.inserted + SumInserted(Tail(log))
RECURSIVE SumFailed(_)
SumFailed(log) == IF log = <<>> THEN 0 ELSE log[1].stats.failed + SumFailed(Tail(log))
\* migrate_collection returned from its except clause.
Aborted == mc_pc = "return" /\ report.has_counts /\ ~report.has_detail /\ report.error # "none"

\* C35: the report of a transfer that aborts carries the counts accumulated
\* by the batches processed before the abort: its migrated and failed counts
\* are the sums over those batches.
C35_AbortedReportKeepsCounts ==
    Aborted =>
        /\ report.stats.migrated_documents = SumInserted(batch_log)
        /\ report.stats.failed_documents = SumFailed(batch_log)


\* C36: in every reachable state and for each role, a health flag that is
\* true implies that the role's handle is present, under every interleaving
\* with the health monitor and for every connection_retry_attempts >= 0.
C36_HealthyImpliesHandle ==
    \A r \in Roles : healthy[r] => client[r] # NoClient


(***************************************************************************)
(* Claims about the relational pools.                                      *)
(***************************************************************************)
\* C37: every connection the relational path takes from a pool is returned
\* to it: after each health probe and after each batch operation, successful
\* or failed, the number of connections taken from the source pool and from
\* the destination pool is what it was before the operation.
C37_PoolsRestored ==
    [][pool_out' = pool_out]_vars


(***************************************************************************)
(* Claims about the independence of the two roles.                         *)
(***************************************************************************)
\* A step of connect_to_source / connect_to_destination on the main thread:
\* the monitor's steps are those that change the monitor's position.
ConnectStep ==
    /\ pc \in {"check", "close", "create", "assign", "mark"}
    /\ <<hm_pc, hm_role, hm_target>>' = <<hm_pc, hm_role, hm_target>>
OtherRole(r) == IF r = "source" THEN "destination" ELSE "source"

\* C38: the roles are independent: every step of connect_to_source, on its
\* success path and on its failure path, leaves the destination's handle and
\* health flag unchanged, and every step of connect_to_destination leaves
\* the source's; a handle created by a connect is stored under the role of
\* that connect only.
C38_RolesIndependent ==
    [][ConnectStep =>
         /\ client'[OtherRole(role)] = client[OtherRole(role)]
         /\ healthy'[OtherRole(role)] = healthy[OtherRole(role)]
         /\ role' = role
         /\ (client'[role] # client[role] /\ client'[role] # NoClient) => client'[role] = new_client]_vars
\* connect_to_source closed the unhealthy source client and then failed to
\* connect, beside a destination that is connected and healthy.
C38_Witness ==
    /\ pc = "idle" /\ op_count = 1 /\ role = "source" /\ conn_kind = "failed"
    /\ FirstSource \in close_called /\ client["source"] = NoClient
    /\ client["destination"] = FirstDest /\ healthy["destination"]


(***************************************************************************)
(* Claims about what the executor hands back.                              *)
(***************************************************************************)
\* C39: for every operation_retry_attempts >= 0 a call of execute_with_retry
\* that has ended invoked the operation at least once, and it ended either
\* by returning the value of a successful invocation or by raising.
C39_NeverReturnsUninvoked ==
    (caller = "executor" /\ pc = "idle" /\ op_count >= 1) =>
        /\ ex_calls >= 1
        /\ ex_result.kind \in {"return", "raise"}
        /\ ex_result.kind = "return" => ex_last = "ok"


(***************************************************************************)
(* Claims about the tunables the front-ends hand to the service.           *)
(***************************************************************************)
\* C40: the batch size used by the streaming loop of a transfer, the
\* service's batch_size, equals the batch size of the configuration at the
\* time the front-end created the service.
C40_BatchSizeFromConfig ==
    ServiceCreated => batch_size = config_batch_size

=============================================================================
